---- MODULE Spec2Model ----
(***************************************************************************)
(* Gesture recognition and stabilization engine of gamay-asl               *)
(* (src/app/page.tsx): the geometric classifier, the nearest-neighbour     *)
(* classifier, and the per-frame prediction hook (usePredictionModel) with *)
(* its sliding window, lock timestamp and motion buffer, driven by         *)
(* ASLRecorder.handleFrame, the sample recorder (useDataCollection) that   *)
(* builds the training set, the sentence built from the recognised labels, *)
(* the start-up effect of useLandmarker, and the intro banner              *)
(* (src/unnamed/part_000).  The specifications: Spec (gestures on full     *)
(* windows), Training (takes and model controls at any moment), Calls      *)
(* (predictKNN on its own), Motion (a moving index finger and landmark     *)
(* lists of the wrong length, on short windows), Switching (the model      *)
(* controls in the middle of a gesture), Gestures                          *)
(* (recognizeGeometricGesture on its own), Signing (frames with the        *)
(* sentence, Backspace and Clear), Startup and StartupFair (camera start   *)
(* and model load side by side), Banner and BannerFair (the intro banner   *)
(* and its timeouts).                                                      *)
(*                                                                         *)
(* Numbers.  Landmark coordinates are integers in hundredths of the        *)
(* normalised image unit (x = 40 is 0.40).  Distances are kept exact: a    *)
(* planar distance is carried as its square, and every threshold test of   *)
(* the source is the same test between squares.  Confidences are exact     *)
(* rationals <<numerator, denominator>> in percent, Math.round is          *)
(* floor(v + 1/2).                                                         *)
(*                                                                         *)
(* Time.  The hook only ever reads Date.now() - lastSuccessfulDetection-   *)
(* Time and compares it with SCAN_DELAY_MS, so the pair is carried as      *)
(* sinceLock, the milliseconds since the recorded lock, saturating at      *)
(* SCAN_DELAY_MS.  React state set during a frame is committed before the  *)
(* next event is handled.                                                  *)
(***************************************************************************)
EXTENDS Integers, Sequences, FiniteSets, TLC

VARIABLES
    modelType,            \* useState "none" | "geometric" | "ml"
    detectedLabel,        \* useState, the held (shown) label, "" when none
    debugStatus,          \* useState, status line
    confidence,           \* useState, 0..100
    isLocked,             \* useState
    verificationProgress, \* useState, 0..100
    trainingData,         \* trainingDataRef.current
    mlDataSize,           \* useState
    trainedClasses,       \* useState
    bufferRef,            \* bufferRef.current, the sliding window
    sinceLock,            \* Date.now() - lastSuccessfulDetectionTime.current, capped
    prevIndexPos,         \* prevIndexPos.current, Null or [x, y]
    motionBuffer,         \* motionBuffer.current
    op,                   \* the operation that produced this state
    frame,                \* rawLandmarks of the last handleFrame
    heldBefore,           \* detectedLabel as the last handleFrame found it
    evicted,              \* its push found the window full and shifted it
    heldFor,              \* Date.now() - lastSuccessfulDetectionTime.current it read
    path,                 \* the return statement predict left through
    rawResult,            \* predict's rawResult of the last frame
    rawConfidence,        \* predict's rawConfidence of the last frame, <<num, den>>
    result,               \* predict's return value of the last frame
    misses,               \* consecutive frames that had a hand but no candidate
    collecting,           \* useDataCollection: useState
    sampleCount,          \* useDataCollection: useState
    activeLabel,          \* activeLabelRef.current
    dataBuffer,           \* dataBufferRef.current, the recorded samples
    sinceSample,          \* Date.now() - lastSampleTimeRef.current, capped
    called,               \* the arguments of a direct call of a classifier
    returned,             \* what that call returned
    status,               \* useLandmarker: useState, the status line
    initAt,               \* where initLandmarker stands
    cameraAt,             \* where startCamera stands
    landmarkerRef,        \* landmarkerRef.current is set
    srcObject,            \* videoRef.current.srcObject is set
    isCancelled,          \* the effect's isCancelled
    sentence,             \* ASLRecorder: useState, as a list of characters
    sinceAdded,           \* Date.now() - lastAddedTimeRef.current, capped
    addedFor,             \* Date.now() - lastAddedTimeRef.current the last frame read
    isVisible,            \* IntroBanner: useState
    isDismissed,          \* IntroBanner: useState
    isMounted,            \* IntroBanner: useState
    fadeInTimer,          \* ms left on the fade-in timeout, Idle when none
    dismissTimer,         \* ms left on the auto-dismiss timeout, Idle when none
    unmountTimers,        \* ms left on each timeout set by handleDismiss
    autoDismissDuration,  \* IntroBanner: the prop
    shownFor,             \* ms since isVisible was set
    dismissedFor          \* ms since isDismissed was first set

\* the state of useDataCollection
collection == <<collecting, sampleCount, activeLabel, dataBuffer, sinceSample>>

\* a call of predictKNN or recognizeGeometricGesture outside the hook
direct == <<called, returned>>

\* the state of useLandmarker's start-up effect
startup == <<status, initAt, cameraAt, landmarkerRef, srcObject, isCancelled>>

\* the sentence built from the recognised labels
signing == <<sentence, sinceAdded, addedFor>>

\* the state of IntroBanner
intro == <<isVisible, isDismissed, isMounted, fadeInTimer, dismissTimer,
           unmountTimers, autoDismissDuration, shownFor, dismissedFor>>

\* what the page holds besides the two hooks
page == <<startup, signing, intro>>

vars == <<modelType, detectedLabel, debugStatus, confidence, isLocked,
          verificationProgress, trainingData, mlDataSize, trainedClasses,
          bufferRef, sinceLock, prevIndexPos, motionBuffer,
          op, frame, heldBefore, evicted, heldFor, path, rawResult,
          rawConfidence, result, misses, collection, direct, page>>

\* what the last handleFrame was given and what its predict call saw
observed == <<frame, heldBefore, evicted, heldFor, path, rawResult,
              rawConfidence, result>>

(***************************************************************************)
(* Program constants                                                       *)
(***************************************************************************)
K == 5
PREDICTION_BUFFER_SIZE == 30
SCAN_DELAY_MS == 600
REQUIRED_FRAMES == 25
MIN_BUFFERED == 5
CONFIDENCE_THRESHOLD == 75
GEOMETRIC_CONFIDENCE == 90
MOTION_CONFIDENCE == 95
MOTION_WINDOW == 5
MOTION_THRESHOLD == 4
SAMPLE_COOLDOWN_MS == 200
SENTENCE_ADD_COOLDOWN == 1200
DEFAULT_AUTO_DISMISS == 3500
TRANSITION_DURATION == 700
FADE_IN_DELAY == 50

(***************************************************************************)
(* Bounds of the model                                                     *)
(***************************************************************************)
\* A frame is taken only if the window it leaves has at most this many runs
\* of equal labels (so at most MaxRuns - 1 label changes are in the window).
MaxRuns == 2
\* ... and only if it is not one more than this many candidate-less frames
\* in a row.
MaxMisses == 1
\* samples recorded in one take, samples in a training set built by takes,
\* and entries of the window during a training session
MaxRecorded == 2
MaxTraining == 5
MaxWindow == 1
\* samples in a list handed to predictKNN directly
MaxSamples == 6

Null == "<null>"
Infinity == -1

Min(a, b) == IF a < b THEN a ELSE b

\* Math.sqrt in the model's unit: exact on the perfect squares the hands and
\* the small vectors produce, rounded down to the hundredth otherwise.
Sqrt(n) == CHOOSE r \in 0..n : r * r <= n /\ (r + 1) * (r + 1) > n

\* Math.round of the rational num/den (den > 0, num >= 0): floor(v + 1/2).
Round(num, den) == (2 * num + den) \div (2 * den)

RECURSIVE SumSeq(_)
SumSeq(s) == IF s = <<>> THEN 0 ELSE Head(s) + SumSeq(Tail(s))

(***************************************************************************)
(* Landmarks                                                               *)
(***************************************************************************)
P(px, py, pz) == [x |-> px, y |-> py, z |-> pz]

\* landmarks[i] of the source (0-based) in a 1-based sequence
At(landmarks, i) == landmarks[i + 1]

\* dist(p1, p2, scale): the planar distance divided by scale, carried as the
\* pair <<squared distance, squared scale>>.
dist(p1, p2, scale2) ==
    <<(p1.x - p2.x) * (p1.x - p2.x) + (p1.y - p2.y) * (p1.y - p2.y), scale2>>

\* a > b * (n/m) for two normalised distances of the same scale
Exceeds(a, b, n, m) == a[1] * m * m > b[1] * n * n
\* a < n/m and a > n/m for a normalised distance and a literal threshold
Below(a, n, m) == a[1] * m * m < n * n * a[2]
Above(a, n, m) == a[1] * m * m > n * n * a[2]

\* a finger taken as extended as soon as its tip is farther from the wrist
\* than its middle joint
getFingerStateAnyBeyond(landmarks, idx, scale2) ==
    LET tip == At(landmarks, idx * 4 + 4)
        pip == At(landmarks, idx * 4 + 2)
        wrist == At(landmarks, 0)
    IN  Exceeds(dist(tip, wrist, scale2), dist(pip, wrist, scale2), 10, 10)

getFingerState(landmarks, idx, scale2) ==
    LET tip == At(landmarks, idx * 4 + 4)
        pip == At(landmarks, idx * 4 + 2)
        wrist == At(landmarks, 0)
    IN  Exceeds(dist(tip, wrist, scale2), dist(pip, wrist, scale2), 12, 10)

isThumbExtended(landmarks, scale2) ==
    LET thumbTip == At(landmarks, 4)
        thumbIP == At(landmarks, 3)
        thumbMCP == At(landmarks, 2)
        pinkyMCP == At(landmarks, 17)
        isFarFromPalm == Exceeds(dist(thumbTip, pinkyMCP, scale2),
                                 dist(thumbMCP, pinkyMCP, scale2), 13, 10)
        isStraight == Exceeds(dist(thumbTip, thumbMCP, scale2),
                              dist(thumbIP, thumbMCP, scale2), 10, 10)
    IN  isFarFromPalm /\ isStraight

\* the palm size taken as the scale whatever its length
ReferenceScale2Unfloored(landmarks) ==
    dist(At(landmarks, 0), At(landmarks, 9), 1)[1]

\* palmSize > 0.01 ? palmSize : 0.1, squared, in hundredths
ReferenceScale2(landmarks) ==
    LET palm2 == dist(At(landmarks, 0), At(landmarks, 9), 1)[1]
    IN  IF palm2 > 1 THEN palm2 ELSE 100

\* the zero-fingers bucket with the thumb-crossed test made before the hook test
FistBucketThumbFirst(landmarks, scale2) ==
    LET thumbTip == At(landmarks, 4)
        indexTip == At(landmarks, 8)
        indexPIP == At(landmarks, 6)
        indexMCP == At(landmarks, 5)
        middleMCP == At(landmarks, 9)
        ringMCP == At(landmarks, 13)
        pinkyMCP == At(landmarks, 17)
        hook == dist(indexTip, indexMCP, scale2)
        isRightHand == indexMCP.x < pinkyMCP.x
        thumbCrossed == IF isRightHand THEN thumbTip.x > middleMCP.x
                                       ELSE thumbTip.x < middleMCP.x
        thumbInIndexZone ==
            IF isRightHand
            THEN thumbTip.x < indexMCP.x /\ thumbTip.x > middleMCP.x
            ELSE thumbTip.x > indexMCP.x /\ thumbTip.x < middleMCP.x
        fingerstight == Below(dist(indexTip, indexMCP, scale2), 85, 100)
        thumbPastRing == IF isRightHand THEN thumbTip.x > ringMCP.x
                                        ELSE thumbTip.x < ringMCP.x
        thumbPastMid == IF isRightHand THEN thumbTip.x > middleMCP.x
                                       ELSE thumbTip.x < middleMCP.x
    IN  IF thumbCrossed /\ thumbTip.y < indexMCP.y THEN "S"
        ELSE IF Above(hook, 7, 10) /\ Below(hook, 13, 10) THEN "X"
        ELSE IF thumbInIndexZone /\ Below(dist(thumbTip, indexPIP, scale2), 6, 10)
             THEN "T"
        ELSE IF /\ thumbTip.y > indexMCP.y
                /\ Below(dist(thumbTip, indexMCP, scale2), 7, 10)
                /\ fingerstight
             THEN "E"
        ELSE IF thumbPastRing THEN "M"
        ELSE IF thumbPastMid THEN "N"
        ELSE "A"

\* the zero-fingers bucket with the thumb zone taken between the index and
\* the middle knuckle in the order the handedness test gives them
FistBucketZoneOrdered(landmarks, scale2) ==
    LET thumbTip == At(landmarks, 4)
        indexTip == At(landmarks, 8)
        indexPIP == At(landmarks, 6)
        indexMCP == At(landmarks, 5)
        middleMCP == At(landmarks, 9)
        ringMCP == At(landmarks, 13)
        pinkyMCP == At(landmarks, 17)
        hook == dist(indexTip, indexMCP, scale2)
        isRightHand == indexMCP.x < pinkyMCP.x
        thumbCrossed == IF isRightHand THEN thumbTip.x > middleMCP.x
                                       ELSE thumbTip.x < middleMCP.x
        thumbInIndexZone ==
            IF isRightHand
            THEN thumbTip.x > indexMCP.x /\ thumbTip.x < middleMCP.x
            ELSE thumbTip.x < indexMCP.x /\ thumbTip.x > middleMCP.x
        fingerstight == Below(dist(indexTip, indexMCP, scale2), 85, 100)
        thumbPastRing == IF isRightHand THEN thumbTip.x > ringMCP.x
                                        ELSE thumbTip.x < ringMCP.x
        thumbPastMid == IF isRightHand THEN thumbTip.x > middleMCP.x
                                       ELSE thumbTip.x < middleMCP.x
    IN  IF Above(hook, 7, 10) /\ Below(hook, 13, 10) THEN "X"
        ELSE IF thumbCrossed /\ thumbTip.y < indexMCP.y THEN "S"
        ELSE IF thumbInIndexZone /\ Below(dist(thumbTip, indexPIP, scale2), 6, 10)
             THEN "T"
        ELSE IF /\ thumbTip.y > indexMCP.y
                /\ Below(dist(thumbTip, indexMCP, scale2), 7, 10)
                /\ fingerstight
             THEN "E"
        ELSE IF thumbPastRing THEN "M"
        ELSE IF thumbPastMid THEN "N"
        ELSE "A"

\* the zero-fingers bucket (fist / hook / closed), in its priority order
FistBucket(landmarks, scale2) ==
    LET thumbTip == At(landmarks, 4)
        indexTip == At(landmarks, 8)
        indexPIP == At(landmarks, 6)
        indexMCP == At(landmarks, 5)
        middleMCP == At(landmarks, 9)
        ringMCP == At(landmarks, 13)
        pinkyMCP == At(landmarks, 17)
        hook == dist(indexTip, indexMCP, scale2)
        isRightHand == indexMCP.x < pinkyMCP.x
        thumbCrossed == IF isRightHand THEN thumbTip.x > middleMCP.x
                                       ELSE thumbTip.x < middleMCP.x
        thumbInIndexZone ==
            IF isRightHand
            THEN thumbTip.x < indexMCP.x /\ thumbTip.x > middleMCP.x
            ELSE thumbTip.x > indexMCP.x /\ thumbTip.x < middleMCP.x
        fingerstight == Below(dist(indexTip, indexMCP, scale2), 85, 100)
        thumbPastRing == IF isRightHand THEN thumbTip.x > ringMCP.x
                                        ELSE thumbTip.x < ringMCP.x
        thumbPastMid == IF isRightHand THEN thumbTip.x > middleMCP.x
                                       ELSE thumbTip.x < middleMCP.x
    IN  IF Above(hook, 7, 10) /\ Below(hook, 13, 10) THEN "X"
        ELSE IF thumbCrossed /\ thumbTip.y < indexMCP.y THEN "S"
        ELSE IF thumbInIndexZone /\ Below(dist(thumbTip, indexPIP, scale2), 6, 10)
             THEN "T"
        ELSE IF /\ thumbTip.y > indexMCP.y
                /\ Below(dist(thumbTip, indexMCP, scale2), 7, 10)
                /\ fingerstight
             THEN "E"
        ELSE IF thumbPastRing THEN "M"
        ELSE IF thumbPastMid THEN "N"
        ELSE "A"

\* the special "curved" checks (C, O), made before the count is taken; ext is
\* <<indExt, midExt, rinExt, pinExt>>
CurvedCheck(landmarks, scale2, ext) ==
    LET thumbTip == At(landmarks, 4)
        indexTip == At(landmarks, 8)
        indexMCP == At(landmarks, 5)
        thumbIndexDist == dist(thumbTip, indexTip, scale2)
        indexCurledHalfway ==
            ~ext[1] /\ Above(dist(indexTip, indexMCP, scale2), 9, 10)
    IN  IF ~ext[1] /\ ~ext[2] /\ ~ext[3] /\ ~ext[4] /\ indexCurledHalfway
        THEN (IF Below(thumbIndexDist, 35, 100) THEN "O"
              ELSE IF Above(thumbIndexDist, 35, 100) /\ Below(thumbIndexDist, 13, 10)
                   THEN "C"
              ELSE Null)
        ELSE Null

\* the four-fingers bucket with its two labels exchanged
FourBucketExchanged(landmarks, scale2) ==
    IF Below(dist(At(landmarks, 4), At(landmarks, 5), scale2), 6, 10)
    THEN "5" ELSE "4"

\* CASE: 4 Fingers Up
FourBucket(landmarks, scale2) ==
    IF Below(dist(At(landmarks, 4), At(landmarks, 5), scale2), 6, 10)
    THEN "4" ELSE "5"

\* CASE: 3 Fingers Up
ThreeBucket(landmarks, scale2, ext) ==
    LET thumbIndexDist == dist(At(landmarks, 4), At(landmarks, 8), scale2)
    IN  IF ext[1] /\ ext[2] /\ ext[3] THEN "W"
        ELSE IF ext[2] /\ ext[3] /\ ext[4]
             THEN (IF Below(thumbIndexDist, 4, 10) THEN "F" ELSE "OK")
        ELSE Null

\* the two-fingers bucket with the test for touching tips made before the
\* test for crossed fingers
TwoBucketTouchingFirst(landmarks, scale2, ext, thumbExt) ==
    LET thumbTip == At(landmarks, 4)
        indexTip == At(landmarks, 8)
        indexPIP == At(landmarks, 6)
        indexMCP == At(landmarks, 5)
        middleTip == At(landmarks, 12)
        pinkyMCP == At(landmarks, 17)
        isRightHand == indexMCP.x < pinkyMCP.x
        isCrossed == IF isRightHand THEN indexTip.x > middleTip.x
                                    ELSE indexTip.x < middleTip.x
    IN  IF thumbExt /\ ext[1] /\ ext[2] THEN "3"
        ELSE IF ext[1] /\ ext[2]
        THEN (IF /\ thumbTip.y < indexMCP.y
                 /\ Below(dist(thumbTip, indexPIP, scale2), 6, 10)
                 /\ ~thumbExt
              THEN "K"
              ELSE IF Below(dist(indexTip, middleTip, scale2), 35, 100) THEN "U"
              ELSE IF isCrossed THEN "R"
              ELSE "V")
        ELSE Null

\* CASE: 2 Fingers Up
TwoBucket(landmarks, scale2, ext, thumbExt) ==
    LET thumbTip == At(landmarks, 4)
        indexTip == At(landmarks, 8)
        indexPIP == At(landmarks, 6)
        indexMCP == At(landmarks, 5)
        middleTip == At(landmarks, 12)
        pinkyMCP == At(landmarks, 17)
        isRightHand == indexMCP.x < pinkyMCP.x
        isCrossed == IF isRightHand THEN indexTip.x > middleTip.x
                                    ELSE indexTip.x < middleTip.x
    IN  IF thumbExt /\ ext[1] /\ ext[2] THEN "3"
        ELSE IF ext[1] /\ ext[2]
        THEN (IF /\ thumbTip.y < indexMCP.y
                 /\ Below(dist(thumbTip, indexPIP, scale2), 6, 10)
                 /\ ~thumbExt
              THEN "K"
              ELSE IF isCrossed THEN "R"
              ELSE IF Below(dist(indexTip, middleTip, scale2), 35, 100) THEN "U"
              ELSE "V")
        ELSE Null

\* CASE: 1 Finger Up
OneBucket(landmarks, scale2, ext, thumbExt) ==
    IF ext[1] /\ thumbExt THEN "L"
    ELSE IF ext[1]
         THEN (IF Below(dist(At(landmarks, 4), At(landmarks, 12), scale2), 5, 10)
               THEN "D" ELSE "1")
    ELSE IF ext[4] THEN (IF thumbExt THEN "Y" ELSE "I")
    ELSE Null

\* what a call leaves when it reads a coordinate of a landmark the array does
\* not have: the TypeError it throws
TypeError == "<TypeError>"

\* the array is read up to landmarks[20]: a shorter one throws, a longer one
\* is classified on its first 21 landmarks
recognizeGeometricGesture(landmarks) ==
    IF Len(landmarks) = 0 THEN Null
    ELSE IF Len(landmarks) < 21 THEN TypeError
    ELSE
    LET scale2 == ReferenceScale2(landmarks)
        ext == [i \in 1..4 |-> getFingerState(landmarks, i, scale2)]
        thumbExt == isThumbExtended(landmarks, scale2)
        curved == CurvedCheck(landmarks, scale2, ext)
        extendedCount == Cardinality({i \in 1..4 : ext[i]})
    IN  IF curved # Null THEN curved
        ELSE IF extendedCount = 4 THEN FourBucket(landmarks, scale2)
        ELSE IF extendedCount = 3 THEN ThreeBucket(landmarks, scale2, ext)
        ELSE IF extendedCount = 2 THEN TwoBucket(landmarks, scale2, ext, thumbExt)
        ELSE IF extendedCount = 1 THEN OneBucket(landmarks, scale2, ext, thumbExt)
        ELSE IF extendedCount = 0 THEN FistBucket(landmarks, scale2)
        ELSE Null

(***************************************************************************)
(* Nearest-neighbour classifier                                            *)
(***************************************************************************)
RECURSIVE SquaredDiffs(_, _, _)
SquaredDiffs(v1, v2, i) ==
    IF i > Len(v1) THEN 0
    ELSE (v1[i] - v2[i]) * (v1[i] - v2[i]) + SquaredDiffs(v1, v2, i + 1)

calculateEuclideanDistance(v1, v2) ==
    IF Len(v1) # Len(v2) THEN Infinity ELSE Sqrt(SquaredDiffs(v1, v2, 1))

\* the comparator (a, b) => a.distance - b.distance is negative
DistanceBefore(a, b) == a # Infinity /\ (b = Infinity \/ a < b)

\* the list as it came, not sorted
InListOrder(distances) == distances

\* Array.prototype.sort is stable: position i of the input goes before
\* position j when it is nearer, or equally near and earlier.
SortedByDistance(distances) ==
    LET n == Len(distances)
        before(i, j) == \/ DistanceBefore(distances[i].distance, distances[j].distance)
                        \/ /\ ~DistanceBefore(distances[j].distance, distances[i].distance)
                           /\ i < j
        rank(i) == Cardinality({j \in 1..n : before(j, i)})
    IN  [r \in 1..n |-> distances[CHOOSE i \in 1..n : rank(i) = r - 1]]

\* The labels the model uses that are canonical array indices: Object.keys
\* lists such keys first, in ascending numeric order, then the other keys
\* in insertion order.
IndexValue(label) ==
    CASE label = "1" -> 1 [] label = "3" -> 3 [] label = "4" -> 4
      [] label = "5" -> 5 [] OTHER -> -1

FirstOccurrences(labels) ==
    LET isFirst(i) == \/ i = 1
                      \/ /\ labels[i] # labels[i - 1]
                         /\ \A j \in 1..(i - 2) : labels[j] # labels[i]
        firsts == {i \in 1..Len(labels) : isFirst(i)}
        nth(k) == CHOOSE i \in firsts : Cardinality({j \in firsts : j < i}) = k - 1
    IN  [k \in 1..Cardinality(firsts) |-> labels[nth(k)]]

RECURSIVE AscendingIndexKeys(_)
AscendingIndexKeys(S) ==
    IF S = {} THEN <<>>
    ELSE LET least == CHOOSE a \in S : \A b \in S : IndexValue(a) <= IndexValue(b)
         IN  <<least>> \o AscendingIndexKeys(S \ {least})

\* Object.keys of an object whose string keys were inserted in this order
ObjectKeys(inserted) ==
    LET keys == FirstOccurrences(inserted)
        isIndex(i) == IndexValue(keys[i]) >= 0
    IN  AscendingIndexKeys({keys[i] : i \in {j \in 1..Len(keys) : isIndex(j)}})
        \o SelectSeq(keys, LAMBDA k : IndexValue(k) < 0)

\* every neighbour with the same weight
WeightDenominatorUnit(distance) == 1

\* 1 / (distance + 0.0001) for a distance in hundredths is
\* 10000 / (100 * distance + 1); the common factor 10000 is dropped.
WeightDenominator(distance) == 100 * distance + 1

RECURSIVE Product(_)
Product(S) == IF S = {} THEN 1
              ELSE LET e == CHOOSE a \in S : TRUE IN e * Product(S \ {e})

\* the forEach with >= in place of >: the last of the heaviest keys
RECURSIVE HeaviestLast(_, _, _, _)
HeaviestLast(keys, weightOf, winner, maxWeight) ==
    IF keys = <<>> THEN winner
    ELSE IF winner = Null \/ weightOf[Head(keys)] >= maxWeight
         THEN HeaviestLast(Tail(keys), weightOf, Head(keys), weightOf[Head(keys)])
         ELSE HeaviestLast(Tail(keys), weightOf, winner, maxWeight)

\* the forEach with < in place of >: the first of the lightest keys
RECURSIVE LightestFirst(_, _, _, _)
LightestFirst(keys, weightOf, winner, maxWeight) ==
    IF keys = <<>> THEN winner
    ELSE IF winner = Null \/ weightOf[Head(keys)] < maxWeight
         THEN LightestFirst(Tail(keys), weightOf, Head(keys), weightOf[Head(keys)])
         ELSE LightestFirst(Tail(keys), weightOf, winner, maxWeight)

\* the winner of the forEach over Object.keys(votes): the first key whose
\* weight is strictly greater than every maximum seen before it
RECURSIVE HeaviestFirst(_, _, _, _)
HeaviestFirst(keys, weightOf, winner, maxWeight) ==
    IF keys = <<>> THEN winner
    ELSE IF winner = Null \/ weightOf[Head(keys)] > maxWeight
         THEN HeaviestFirst(Tail(keys), weightOf, Head(keys), weightOf[Head(keys)])
         ELSE HeaviestFirst(Tail(keys), weightOf, winner, maxWeight)

predictKNN(inputVector, data) ==
    IF Len(data) = 0 \/ Len(inputVector) = 0 THEN [label |-> Null, confidence |-> <<0, 1>>]
    ELSE
    LET distances == [i \in 1..Len(data) |->
                        [label |-> data[i].label,
                         distance |-> calculateEuclideanDistance(inputVector, data[i].vector)]]
        sorted == SortedByDistance(distances)
        neighbors == SubSeq(sorted, 1, Min(K, Len(data)))
        finite == {neighbors[i].distance : i \in 1..Len(neighbors)} \ {Infinity}
        common == Product({WeightDenominator(d) : d \in finite})
        weight(n) == IF n.distance = Infinity THEN 0
                     ELSE common \div WeightDenominator(n.distance)
        keys == ObjectKeys([i \in 1..Len(neighbors) |-> neighbors[i].label])
        votes == [l \in {keys[i] : i \in 1..Len(keys)} |->
                    SumSeq([i \in 1..Len(neighbors) |->
                              IF neighbors[i].label = l THEN weight(neighbors[i]) ELSE 0])]
        totalWeight == SumSeq([i \in 1..Len(neighbors) |-> weight(neighbors[i])])
        winner == HeaviestFirst(keys, votes, Null, 0)
    IN  [label |-> winner,
         confidence |-> IF totalWeight > 0 THEN <<100 * votes[winner], totalWeight>>
                        ELSE <<0, 1>>]

(***************************************************************************)
(* Inputs of the model: the frames the detector delivers and the datasets  *)
(* a file load delivers.                                                    *)
(***************************************************************************)
\* a closed fist with the thumb at the side
HandA ==
    << P(50, 90, 0), P(42, 82, 0), P(34, 74, 0), P(31, 66, 0),
       P(30, 58, 0), P(40, 60, 0), P(40, 54, 0), P(40, 62, 0),
       P(40, 66, 0), P(50, 58, 0), P(50, 52, 0), P(50, 60, 0),
       P(50, 64, 0), P(58, 60, 0), P(58, 54, 0), P(58, 62, 0),
       P(58, 66, 0), P(65, 64, 0), P(65, 58, 0), P(65, 66, 0),
       P(65, 70, 0) >>

\* index raised, the other fingers curled
HandOne0 ==
    << P(50, 90, 0), P(42, 82, 0), P(34, 74, 0), P(31, 66, 0),
       P(30, 58, 0), P(40, 60, 0), P(40, 50, 0), P(40, 40, 0),
       P(40, 30, 0), P(50, 58, 0), P(50, 52, 0), P(50, 60, 0),
       P(50, 64, 0), P(58, 60, 0), P(58, 54, 0), P(58, 62, 0),
       P(58, 66, 0), P(65, 64, -6), P(65, 58, -3), P(65, 66, -2),
       P(65, 70, -2) >>

\* the same hand with the index fingertip moved sideways by 0.09
HandOne1 ==
    << P(50, 90, 0), P(42, 82, 0), P(34, 74, 0), P(31, 66, 0),
       P(30, 58, 0), P(40, 60, 0), P(40, 50, 0), P(40, 40, 0),
       P(49, 30, 0), P(50, 58, 0), P(50, 52, 0), P(50, 60, 0),
       P(50, 64, 0), P(58, 60, 0), P(58, 54, 0), P(58, 62, 0),
       P(58, 66, 0), P(65, 64, -5), P(65, 58, -4), P(65, 66, -3),
       P(65, 70, -3) >>

\* index, middle and pinky raised: no rule of the classifier matches
HandNone ==
    << P(50, 90, 0), P(42, 82, 0), P(34, 74, 0), P(31, 66, 0),
       P(30, 58, 0), P(40, 60, 0), P(40, 50, 0), P(40, 40, 0),
       P(40, 30, 0), P(50, 58, 0), P(50, 48, 0), P(50, 38, 0),
       P(50, 28, 0), P(58, 60, 0), P(58, 54, 0), P(58, 62, 0),
       P(58, 66, 0), P(65, 64, -6), P(65, 54, -6), P(65, 44, -4),
       P(65, 34, 0) >>

\* the fist with its last landmark missing, and with a landmark too many
HandShort == SubSeq(HandA, 1, 20)

HandLong == Append(HandA, P(65, 72, 0))

NoHand == <<>>

\* the frames fed to the hook
Frames == {NoHand, HandA, HandOne0, HandNone}

\* every hand of the model
Hands == {HandA, HandOne0, HandOne1, HandNone, HandShort, HandLong}

\* milliseconds Date.now() advances between two calls of predict
FrameGaps == {200, 600}

\* landmarks.flatMap(p => [p.x - wrist.x, p.y - wrist.y, p.z - wrist.z])
RECURSIVE WristRelative(_, _)
WristRelative(landmarks, i) ==
    IF i > Len(landmarks) THEN <<>>
    ELSE LET wrist == At(landmarks, 0)
             p == landmarks[i]
         IN  <<p.x - wrist.x, p.y - wrist.y, p.z - wrist.z>>
             \o WristRelative(landmarks, i + 1)

Sample(l, v) == [label |-> l, vector |-> v]

\* two signs trained on the same pose: three samples of "B", two of "C"
MixedSet ==
    LET v == WristRelative(HandA, 1)
    IN  <<Sample("B", v), Sample("B", v), Sample("B", v), Sample("C", v), Sample("C", v)>>

\* five signs trained on the same pose, one sample each
SparseSet ==
    LET v == WristRelative(HandA, 1)
    IN  <<Sample("B", v), Sample("C", v), Sample("D", v), Sample("E", v), Sample("F", v)>>

DataSets == {MixedSet, SparseSet}

\* recognizeGeometricGesture and predictKNN on the model's inputs, evaluated
\* once: the classifiers are pure functions of their arguments.
Recognized == [f \in Hands |-> recognizeGeometricGesture(f)]

Neighbors == [f \in Hands, d \in DataSets |-> predictKNN(WristRelative(f, 1), d)]

ModelTypes == {"geometric", "ml"}

(***************************************************************************)
(* usePredictionModel                                                      *)
(***************************************************************************)
Status(text, label, pct) == [text |-> text, label |-> label, pct |-> pct]

\* Array.from(new Set(data.map(d => d.label)))
UniqueLabels(data) == FirstOccurrences([i \in 1..Len(data) |-> data[i].label])

\* a hold of a tenth of the delay, as if the delay were counted in other units
InHoldBrief(elapsed) == elapsed < SCAN_DELAY_MS \div 10

\* Date.now() - lastSuccessfulDetectionTime.current < SCAN_DELAY_MS
InHold(elapsed) == elapsed < SCAN_DELAY_MS

\* a window that gives up its newest entry, pop() in place of shift()
PushWindowNewest(buffer, label) ==
    LET pushed == Append(buffer, label)
    IN  IF Len(pushed) > PREDICTION_BUFFER_SIZE
        THEN SubSeq(pushed, 1, Len(pushed) - 1) ELSE pushed

\* bufferRef.current.push(rawResult), then shift() when over the size
PushWindow(buffer, label) ==
    LET pushed == Append(buffer, label)
    IN  IF Len(pushed) > PREDICTION_BUFFER_SIZE THEN Tail(pushed) ELSE pushed

\* a window that is dropped whole when a frame has no candidate
DecayWindowAll(buffer) == <<>>

\* if (bufferRef.current.length > 0) bufferRef.current.shift()
DecayWindow(buffer) == IF Len(buffer) > 0 THEN Tail(buffer) ELSE buffer

CountOf(buffer, label) == Cardinality({i \in 1..Len(buffer) : buffer[i] = label})

\* Object.keys(counts).reduce((a, b) => counts[a] > counts[b] ? a : b, "")
RECURSIVE ReduceBest(_, _, _)
ReduceBest(keys, buffer, a) ==
    IF keys = <<>> THEN a
    ELSE LET b == Head(keys)
         IN  ReduceBest(Tail(keys), buffer,
                        IF a # "" /\ CountOf(buffer, a) > CountOf(buffer, b) THEN a ELSE b)

BestCandidate(buffer) == ReduceBest(ObjectKeys(buffer), buffer, "")

\* the consistency taken over the configured size of the window
FinalConfidenceOfSize(rawConf, frequency, length) ==
    Round(4 * rawConf[1] * PREDICTION_BUFFER_SIZE + 600 * frequency * rawConf[2],
          10 * rawConf[2] * PREDICTION_BUFFER_SIZE)

\* the consistency added as a fraction, not as a percentage
FinalConfidenceUnscaled(rawConf, frequency, length) ==
    Round(4 * rawConf[1] * length + 6 * frequency * rawConf[2],
          10 * rawConf[2] * length)

\* Math.round(rawConfidence * 0.4 + (frequency / length) * 100 * 0.6)
FinalConfidence(rawConf, frequency, length) ==
    Round(4 * rawConf[1] * length + 600 * frequency * rawConf[2],
          10 * rawConf[2] * length)

\* the progress without Math.min
ProgressUncapped(frequency) == Round(frequency * 100, REQUIRED_FRAMES)

\* the progress taken towards a full window
ProgressOfSize(frequency) == Min(100, Round(frequency * 100, PREDICTION_BUFFER_SIZE))

\* Math.min(100, Math.round((frequency / REQUIRED_FRAMES) * 100))
Progress(frequency) == Min(100, Round(frequency * 100, REQUIRED_FRAMES))

\* the threshold read strictly, frequency > REQUIRED_FRAMES
StableAbove(frequency, finalConfidence) ==
    frequency > REQUIRED_FRAMES /\ finalConfidence > CONFIDENCE_THRESHOLD

\* the threshold on the confidence alone
StableOnConfidence(frequency, finalConfidence) ==
    finalConfidence > CONFIDENCE_THRESHOLD

\* frequency >= REQUIRED_FRAMES && finalConfidence > 75
Stable(frequency, finalConfidence) ==
    frequency >= REQUIRED_FRAMES /\ finalConfidence > CONFIDENCE_THRESHOLD

\* the lock time taken on every stable frame
RecordsLockAlways(bestCandidate, held) == TRUE

\* if (bestCandidate !== detectedLabel) lastSuccessfulDetectionTime.current = Date.now()
RecordsLock(bestCandidate, held) == bestCandidate # held

\* push the velocity, keep the last five
PushVelocity(buffer, velocity) ==
    LET pushed == Append(buffer, velocity)
    IN  IF Len(pushed) > MOTION_WINDOW THEN Tail(pushed) ELSE pushed

\* avgVel > 0.04
IsMoving(buffer) == SumSeq(buffer) > MOTION_THRESHOLD * Len(buffer)

\* the motion logic applied to every candidate
EligibleAnyLabel(static) == static # Null

\* if (rawResult === "1" || rawResult === "D")
Eligible(static) == static = "1" \/ static = "D"

\* The raw prediction phase in geometric mode, with the Z motion logic.
GeometricPhase(rawLandmarks) ==
    LET static == Recognized[rawLandmarks]
        indexTip == At(rawLandmarks, 8)
        eligible == Eligible(static)
        tracked == eligible /\ prevIndexPos # <<>>
        dx == indexTip.x - prevIndexPos[1].x
        dy == indexTip.y - prevIndexPos[1].y
        pushed == IF tracked THEN PushVelocity(motionBuffer, Sqrt(dx * dx + dy * dy))
                  ELSE motionBuffer
        moving == tracked /\ IsMoving(pushed)
    IN  [rawResult |-> IF moving THEN "Z" ELSE static,
         rawConfidence |-> IF moving THEN <<MOTION_CONFIDENCE, 1>>
                           ELSE IF static # Null THEN <<GEOMETRIC_CONFIDENCE, 1>>
                           ELSE <<0, 1>>,
         motionBuffer |-> IF eligible THEN pushed ELSE <<>>,
         prevIndexPos |-> IF eligible THEN <<[x |-> indexTip.x, y |-> indexTip.y]>>
                          ELSE prevIndexPos]

\* predictKNN returned null, or was not called
NoAnswer == [label |-> Null, confidence |-> <<0, 1>>]

\* predictKNN(normalizedInput, trainingDataRef.current); its answers for the
\* datasets of the model are tabulated in Neighbors
Classified(rawLandmarks, data) ==
    IF data \in DataSets THEN Neighbors[rawLandmarks, data]
    ELSE predictKNN(WristRelative(rawLandmarks, 1), data)

\* if (mlPrediction) { rawResult = ...; rawConfidence = ... }
NeighborResult(mlPrediction) ==
    [rawResult |-> mlPrediction.label,
     rawConfidence |-> IF mlPrediction.label # Null THEN mlPrediction.confidence
                       ELSE <<0, 1>>,
     motionBuffer |-> motionBuffer,
     prevIndexPos |-> prevIndexPos]

\* the ml phase without its test of the training-set size
NeighborPhaseAnySize(rawLandmarks) ==
    NeighborResult(Classified(rawLandmarks, trainingData))

\* The raw prediction phase in ml mode: predictKNN once the training set has
\* K samples.
NeighborPhase(rawLandmarks) ==
    IF Len(trainingData) >= K
    THEN NeighborResult(Classified(rawLandmarks, trainingData))
    ELSE NeighborResult(NoAnswer)

\* The stabilization phase for a frame with a candidate: the window after the
\* push and what the frame reports.
Stabilize(raw, elapsed) ==
    LET window == PushWindow(bufferRef, raw.rawResult)
        bestCandidate == BestCandidate(window)
        frequency == CountOf(window, bestCandidate)
        finalConfidence == FinalConfidence(raw.rawConfidence, frequency, Len(window))
        decided == Len(window) >= MIN_BUFFERED
        stable == decided /\ Stable(frequency, finalConfidence)
    IN  [path |-> IF ~decided THEN "Warmup" ELSE IF stable THEN "Stable" ELSE "Unstable",
         result |-> IF stable THEN bestCandidate ELSE Null,
         bufferRef |-> window,
         confidence |-> IF decided THEN finalConfidence ELSE confidence,
         verificationProgress |-> IF decided THEN Progress(frequency)
                                  ELSE verificationProgress,
         sinceLock |-> IF stable /\ RecordsLock(bestCandidate, detectedLabel) THEN 0
                       ELSE elapsed]

\* a hold branch that lets the window decay as a frame without candidate does
HeldDecays(elapsed) ==
    [path |-> "Hold", result |-> detectedLabel,
     rawResult |-> Null, rawConfidence |-> <<0, 1>>,
     debugStatus |-> debugStatus, confidence |-> confidence,
     isLocked |-> TRUE, bufferRef |-> DecayWindow(bufferRef),
     detectedLabel |-> detectedLabel,
     verificationProgress |-> verificationProgress,
     sinceLock |-> elapsed,
     motionBuffer |-> motionBuffer, prevIndexPos |-> prevIndexPos]

\* What predict leaves behind when it returns from the hold branch: locked,
\* the held label returned, everything else as it was.
Held(elapsed) ==
    [path |-> "Hold", result |-> detectedLabel,
     rawResult |-> Null, rawConfidence |-> <<0, 1>>,
     debugStatus |-> debugStatus, confidence |-> confidence,
     isLocked |-> TRUE, bufferRef |-> bufferRef,
     detectedLabel |-> detectedLabel,
     verificationProgress |-> verificationProgress,
     sinceLock |-> elapsed,
     motionBuffer |-> motionBuffer, prevIndexPos |-> prevIndexPos]

\* The branch for no landmarks (or model type "none").
Lost(elapsed) ==
    [Held(elapsed) EXCEPT !.path = "NoHand", !.result = Null,
                          !.debugStatus = Status("No Hand", "", 0),
                          !.confidence = 0, !.isLocked = FALSE,
                          !.bufferRef = <<>>, !.detectedLabel = ""]

\* recognizeGeometricGesture threw: predict is left after setIsLocked(false),
\* and so is handleFrame; the detector loop catches and logs the error.
Thrown(elapsed) ==
    [Held(elapsed) EXCEPT !.path = "Thrown", !.result = Null, !.isLocked = FALSE]

\* After the raw prediction phase: unlocked, the debug status set.
Seen(raw, elapsed) ==
    [Held(elapsed) EXCEPT
        !.isLocked = FALSE,
        !.rawResult = raw.rawResult,
        !.rawConfidence = raw.rawConfidence,
        !.motionBuffer = raw.motionBuffer,
        !.prevIndexPos = raw.prevIndexPos,
        !.debugStatus =
            IF raw.rawResult # Null
            THEN Status("Found", raw.rawResult,
                        Round(raw.rawConfidence[1], raw.rawConfidence[2]))
            ELSE Status("Analysing...", "", 0)]

Settle(seen, s) ==
    [seen EXCEPT !.path = s.path, !.result = s.result,
                 !.bufferRef = s.bufferRef,
                 !.confidence = s.confidence,
                 !.verificationProgress = s.verificationProgress,
                 !.sinceLock = s.sinceLock]

\* The stabilization logic: decay without a candidate, else push and decide.
Decide(raw, elapsed) ==
    IF raw.rawResult = Null
    THEN [Seen(raw, elapsed) EXCEPT !.path = "NoCandidate", !.result = Null,
                                    !.bufferRef = DecayWindow(bufferRef)]
    ELSE Settle(Seen(raw, elapsed), Stabilize(raw, elapsed))

\* predict(inputVector, rawLandmarks) called when Date.now() is elapsed
\* milliseconds after the recorded lock: every value the call leaves behind.
predict(rawLandmarks, elapsed) ==
    IF modelType = "none" \/ Len(rawLandmarks) = 0 THEN Lost(elapsed)
    ELSE IF InHold(elapsed) THEN Held(elapsed)
    ELSE IF modelType = "geometric"
         THEN (IF Recognized[rawLandmarks] = TypeError THEN Thrown(elapsed)
               ELSE Decide(GeometricPhase(rawLandmarks), elapsed))
         ELSE Decide(NeighborPhase(rawLandmarks), elapsed)

\* Date.now() - lastSampleTimeRef.current once it exceeds the cooldown
Cooled == SAMPLE_COOLDOWN_MS + 1

\* Date.now() - lastAddedTimeRef.current once it exceeds the cooldown, as it
\* does while lastAddedTimeRef.current is 0
SinceEpoch == SENTENCE_ADD_COOLDOWN + 1

\* addSample(vec, raw) called when Date.now() is elapsed milliseconds after
\* the last recorded sample; handleFrame calls it only while collecting.
addSample(raw, elapsed) ==
    IF collecting /\ Len(raw) > 0 /\ elapsed > SAMPLE_COOLDOWN_MS
    THEN [dataBuffer |-> Append(dataBuffer, [label |-> activeLabel, landmarks |-> raw]),
          sampleCount |-> Len(dataBuffer) + 1,
          sinceSample |-> 0]
    ELSE [dataBuffer |-> dataBuffer, sampleCount |-> sampleCount,
          sinceSample |-> elapsed]

\* handleFrame without its test for a result: the label follows every return
ShownLabelFollows(res, held, shown) ==
    IF res # held THEN (IF res = Null THEN "" ELSE res) ELSE shown

\* handleFrame: if (result && result !== predictor.detectedLabel)
\*                 predictor.setDetectedLabel(result)
\* `shown` is the label predict itself left (it resets it on a lost hand).
ShownLabel(res, held, shown) ==
    IF res # Null /\ res # "" /\ res # held THEN res ELSE shown

Runs(buffer) ==
    IF buffer = <<>> THEN 0
    ELSE 1 + Cardinality({i \in 1..(Len(buffer) - 1) : buffer[i] # buffer[i + 1]})

(***************************************************************************)
(* State machine                                                           *)
(***************************************************************************)
\* no direct call of a classifier has been made
NoCall == [inputVector |-> <<>>, data |-> <<>>]

Constructed ==
    /\ modelType = "geometric"
    /\ detectedLabel = ""
    /\ debugStatus = Status("Waiting...", "", 0)
    /\ confidence = 0
    /\ isLocked = FALSE
    /\ verificationProgress = 0
    /\ trainingData = <<>>
    /\ mlDataSize = 0
    /\ trainedClasses = <<>>
    /\ bufferRef = <<>>
    /\ sinceLock = SCAN_DELAY_MS
    /\ prevIndexPos = <<>>
    /\ motionBuffer = <<>>
    /\ op = "init"
    /\ frame = NoHand
    /\ heldBefore = ""
    /\ evicted = FALSE
    /\ heldFor = SCAN_DELAY_MS
    /\ path = "None"
    /\ rawResult = Null
    /\ rawConfidence = <<0, 1>>
    /\ result = Null
    /\ misses = 0
    /\ collecting = FALSE
    /\ sampleCount = 0
    /\ activeLabel = ""
    /\ dataBuffer = <<>>
    /\ sinceSample = Cooled

\* no timeout is pending
Idle == -1

\* the camera plays and the model is loaded
Running ==
    /\ status = "Ready"
    /\ initAt = "done"
    /\ cameraAt = "playing"
    /\ landmarkerRef = TRUE
    /\ srcObject = TRUE
    /\ isCancelled = FALSE

\* useState(""), lastAddedTimeRef = useRef(0)
NothingSigned ==
    /\ sentence = <<>>
    /\ sinceAdded = SinceEpoch
    /\ addedFor = SinceEpoch

\* the banner has gone
NoBanner ==
    /\ isVisible = TRUE
    /\ isDismissed = TRUE
    /\ isMounted = FALSE
    /\ fadeInTimer = Idle
    /\ dismissTimer = Idle
    /\ unmountTimers = <<>>
    /\ autoDismissDuration = DEFAULT_AUTO_DISMISS
    /\ shownFor = 0
    /\ dismissedFor = 0

\* the page in use: started, nothing signed yet
Mounted == Constructed /\ Running /\ NothingSigned /\ NoBanner

Init == Mounted /\ called = NoCall /\ returned = NoAnswer

\* ASLRecorder.handleFrame(vector, rawData), gap ms after the previous frame,
\* up to the sentence: the recorder, predict and the shown label
Recognise(rawLandmarks, gap) ==
    \E out \in {predict(rawLandmarks, Min(sinceLock + gap, SCAN_DELAY_MS))},
       rec \in {addSample(rawLandmarks, Min(sinceSample + gap, Cooled))} :
        /\ modelType # "none"
        /\ dataBuffer' = rec.dataBuffer
        /\ sampleCount' = rec.sampleCount
        /\ sinceSample' = rec.sinceSample
        /\ UNCHANGED <<collecting, activeLabel, direct>>
        /\ Runs(out.bufferRef) <= MaxRuns
        /\ misses' = IF out.path = "NoCandidate" THEN misses + 1 ELSE 0
        /\ misses' <= MaxMisses
        /\ op' = "handleFrame"
        /\ frame' = rawLandmarks
        /\ heldBefore' = detectedLabel
        /\ evicted' = (out.rawResult # Null /\ Len(bufferRef) = PREDICTION_BUFFER_SIZE)
        /\ heldFor' = Min(sinceLock + gap, SCAN_DELAY_MS)
        /\ path' = out.path
        /\ result' = out.result
        /\ rawResult' = out.rawResult
        /\ rawConfidence' = out.rawConfidence
        /\ debugStatus' = out.debugStatus
        /\ confidence' = out.confidence
        /\ isLocked' = out.isLocked
        /\ bufferRef' = out.bufferRef
        /\ verificationProgress' = out.verificationProgress
        /\ sinceLock' = out.sinceLock
        /\ motionBuffer' = out.motionBuffer
        /\ prevIndexPos' = out.prevIndexPos
        /\ detectedLabel' = ShownLabel(out.result, detectedLabel, out.detectedLabel)
        /\ UNCHANGED <<modelType, trainingData, mlDataSize, trainedClasses>>

\* handleFrame where the sentence is not followed
HandleFrame(rawLandmarks, gap) == Recognise(rawLandmarks, gap) /\ UNCHANGED page

\* Once the hold is over every gap reads the same elapsed time, so one is taken.
GapsAfter(since) == IF since = SCAN_DELAY_MS THEN {SCAN_DELAY_MS} ELSE FrameGaps

Frame ==
    \E rawLandmarks \in Frames, gap \in GapsAfter(sinceLock) :
        HandleFrame(rawLandmarks, gap)

\* The model controls below are used between gestures, while the window is
\* empty; frames of any kind run in every state.

\* the Geometric / Machine Learning buttons
SetModelType(m) ==
    /\ modelType' = m
    /\ op' = "setModelType"
    /\ UNCHANGED <<detectedLabel, debugStatus, confidence, isLocked,
                   verificationProgress, trainingData, mlDataSize, trainedClasses,
                   bufferRef, sinceLock, prevIndexPos, motionBuffer,
                   observed, misses, collection, direct, page>>

SwitchMode == bufferRef = <<>> /\ \E m \in ModelTypes : SetModelType(m)

\* a load that adds the file to the set instead of replacing the set
LoadMLModelAppends(data) ==
    /\ trainingData' = trainingData \o data
    /\ mlDataSize' = Len(trainingData \o data)
    /\ trainedClasses' = UniqueLabels(trainingData \o data)
    /\ op' = "loadMLModel"
    /\ UNCHANGED <<modelType, detectedLabel, debugStatus, confidence, isLocked,
                   verificationProgress, bufferRef, sinceLock, prevIndexPos,
                   motionBuffer, observed, misses, collection, direct, page>>

\* loadMLModel(data), reached from the Load File button
LoadMLModel(data) ==
    /\ trainingData' = data
    /\ mlDataSize' = Len(data)
    /\ trainedClasses' = UniqueLabels(data)
    /\ op' = "loadMLModel"
    /\ UNCHANGED <<modelType, detectedLabel, debugStatus, confidence, isLocked,
                   verificationProgress, bufferRef, sinceLock, prevIndexPos,
                   motionBuffer, observed, misses, collection, direct, page>>

LoadFile == bufferRef = <<>> /\ \E data \in DataSets : LoadMLModel(data)

\* clearModel without its setModelType("geometric")
ClearModelKeepsMode ==
    /\ trainingData' = <<>>
    /\ mlDataSize' = 0
    /\ trainedClasses' = <<>>
    /\ op' = "clearModel"
    /\ UNCHANGED <<modelType, detectedLabel, debugStatus, confidence, isLocked,
                   verificationProgress, bufferRef, sinceLock, prevIndexPos,
                   motionBuffer, observed, misses, collection, direct, page>>

\* clearModel()
ClearModelCall ==
    /\ trainingData' = <<>>
    /\ mlDataSize' = 0
    /\ trainedClasses' = <<>>
    /\ modelType' = "geometric"
    /\ op' = "clearModel"
    /\ UNCHANGED <<detectedLabel, debugStatus, confidence, isLocked,
                   verificationProgress, bufferRef, sinceLock, prevIndexPos,
                   motionBuffer, observed, misses, collection, direct, page>>

\* the Clear Model button, shown while classes are listed
ClearModel == Len(trainedClasses) > 0 /\ bufferRef = <<>> /\ ClearModelCall

Next == Frame \/ SwitchMode \/ LoadFile \/ ClearModel

Spec == Init /\ [][Next]_vars

(***************************************************************************)
(* Training: the recorder (useDataCollection) and the model controls used  *)
(* at any moment, on short windows.                                        *)
(***************************************************************************)
\* the state of usePredictionModel
hook == <<modelType, detectedLabel, debugStatus, confidence, isLocked,
          verificationProgress, trainingData, mlDataSize, trainedClasses,
          bufferRef, sinceLock, prevIndexPos, motionBuffer>>

\* the frames, labels and files of a training session
TrainFrames == {NoHand, HandA}

TrainLabels == {"B", "C"}

\* a file whose vectors have three lengths: 63, 3 and 0
RaggedSet ==
    LET v == WristRelative(HandA, 1)
    IN  <<Sample("B", v), Sample("C", <<0, 0, 0>>), Sample("C", <<>>),
          Sample("B", v), Sample("C", <<0, 0, 0>>)>>

TrainFiles == {MixedSet, RaggedSet}

\* startCollecting(lbl)
StartCollecting(lbl) ==
    /\ lbl # ""
    /\ activeLabel' = lbl
    /\ collecting' = TRUE
    /\ dataBuffer' = <<>>
    /\ sampleCount' = 0
    /\ sinceSample' = Cooled
    /\ op' = "startCollecting"
    /\ UNCHANGED <<hook, observed, misses, direct, page>>

\* stopCollecting()
StopCollecting ==
    /\ collecting' = FALSE
    /\ op' = "stopCollecting"
    /\ UNCHANGED <<sampleCount, activeLabel, dataBuffer, sinceSample,
                   hook, observed, misses, direct, page>>

\* the record button: collecting ? stopCollecting() : startCollecting(inputLabel)
StartRecording == ~collecting /\ \E lbl \in TrainLabels : StartCollecting(lbl)

StopRecording == collecting /\ StopCollecting

\* dataBufferRef.current.map(...): the recorded landmarks as labelled
\* wrist-relative vectors
NewTrainingData(buffer) ==
    [i \in 1..Len(buffer) |->
        Sample(buffer[i].label, WristRelative(buffer[i].landmarks, 1))]

\* the new samples in place of the set
UpdatedReplaces(data, newTrainingData) == newTrainingData

\* [...trainingDataRef.current, ...newTrainingData]
Updated(data, newTrainingData) == data \o newTrainingData

\* handleAddToModel: addToModel(), then setModelType("ml") and
\* loadMLModel(updatedData) unless addToModel returned null
HandleAddToModel ==
    /\ op' = "addToModel"
    /\ IF Len(dataBuffer) = 0
       THEN UNCHANGED <<hook, collection>>
       ELSE \E updatedData \in {Updated(trainingData, NewTrainingData(dataBuffer))} :
               /\ Len(updatedData) <= MaxTraining
               /\ trainingData' = updatedData
               /\ collecting' = FALSE
               /\ dataBuffer' = <<>>
               /\ sampleCount' = 0
               /\ modelType' = "ml"
               /\ mlDataSize' = Len(updatedData)
               /\ trainedClasses' = UniqueLabels(updatedData)
               /\ UNCHANGED <<detectedLabel, debugStatus, confidence, isLocked,
                              verificationProgress, bufferRef, sinceLock,
                              prevIndexPos, motionBuffer, activeLabel, sinceSample>>
    /\ UNCHANGED <<observed, misses, direct, page>>

\* the gaps between the frames of a take; outside a take the frames are
\* SCAN_DELAY_MS apart
TakeGaps == IF collecting THEN FrameGaps ELSE {SCAN_DELAY_MS}

\* a frame of a training session
TrainFrame ==
    /\ \E rawLandmarks \in TrainFrames, gap \in TakeGaps :
           HandleFrame(rawLandmarks, gap)
    /\ Len(bufferRef') <= MaxWindow
    /\ Len(dataBuffer') <= MaxRecorded

TrainSwitch == \E m \in ModelTypes : SetModelType(m)

TrainLoad == \E data \in TrainFiles : LoadMLModel(data)

TrainNext ==
    \/ TrainFrame \/ StartRecording \/ StopRecording \/ HandleAddToModel
    \/ TrainSwitch \/ TrainLoad \/ ClearModelCall

Training == Init /\ [][TrainNext]_vars

(***************************************************************************)
(* Calls: predictKNN called on its own, on short vectors.                  *)
(***************************************************************************)
\* samples of one coordinate at 0.00 and at 0.02, under a letter and under a
\* label that is an array index, and a sample of two coordinates
CallSamples ==
    {Sample("A", <<0>>), Sample("1", <<0>>), Sample("1", <<2>>),
     Sample("B", <<0, 0>>)}

RECURSIVE ListsUpTo(_, _)
ListsUpTo(S, n) ==
    IF n = 0 THEN {<<>>}
    ELSE LET shorter == ListsUpTo(S, n - 1)
         IN  shorter \cup {Append(l, s) : l \in {m \in shorter : Len(m) = n - 1}, s \in S}

\* two samples of "A" at the origin and one of "B" at [10, 10, 10], which is
\* 1000 hundredths on each axis
ExampleSet ==
    <<Sample("A", <<0, 0, 0>>), Sample("A", <<0, 0, 0>>),
      Sample("B", <<1000, 1000, 1000>>)>>

\* a query of one coordinate put to every list, and a query of three put to
\* the example and to the lists of one or two samples
CallArguments ==
    {[inputVector |-> <<0>>, data |-> l] : l \in ListsUpTo(CallSamples, MaxSamples)}
    \cup {[inputVector |-> <<0, 0, 0>>, data |-> l] :
             l \in ListsUpTo(CallSamples, 2) \cup {ExampleSet}}

CallInit ==
    /\ Mounted
    /\ called \in CallArguments
    /\ returned = NoAnswer

\* predictKNN(inputVector, trainingData) on the arguments drawn
CallPredictKNN ==
    /\ op = "init"
    /\ returned' = predictKNN(called.inputVector, called.data)
    /\ op' = "predictKNN"
    /\ UNCHANGED <<hook, observed, misses, collection, called, page>>

Calls == CallInit /\ [][CallPredictKNN]_vars

(***************************************************************************)
(* Motion: the hook fed a raised index finger that moves, and landmark     *)
(* lists of the wrong length.                                              *)
(***************************************************************************)
\* the longest window of a motion session
MaxTrack == 5

MotionFrames == {NoHand, HandA, HandOne0, HandOne1, HandShort, HandLong}

MotionFrame ==
    /\ \E rawLandmarks \in MotionFrames, gap \in GapsAfter(sinceLock) :
           HandleFrame(rawLandmarks, gap)
    /\ Len(bufferRef') <= MaxTrack

MotionNext == MotionFrame \/ SwitchMode \/ LoadFile

Motion == Init /\ [][MotionNext]_vars

(***************************************************************************)
(* Switching: the model controls used at any moment of a gesture, on full  *)
(* windows of one hand.                                                    *)
(***************************************************************************)
SwitchFrames == {NoHand, HandA}

SwitchFrame ==
    \E rawLandmarks \in SwitchFrames, gap \in GapsAfter(sinceLock) :
        HandleFrame(rawLandmarks, gap)

\* the Load File button with the file of the two signs
SwitchLoad == LoadMLModel(MixedSet)

SwitchNext == SwitchFrame \/ TrainSwitch \/ SwitchLoad \/ ClearModelCall

Switching == Init /\ [][SwitchNext]_vars

(***************************************************************************)
(* Gestures: recognizeGeometricGesture called on its own, on a family of   *)
(* hands built from finger poses.                                          *)
(***************************************************************************)
\* the largest size of a hand, in multiples of its pose
MaxSize == 2

\* A pose is the 21 landmarks as offsets from the wrist, the palm (wrist to
\* middle knuckle) being 10 long; y grows downwards as in the image.
\* the thumb tip on a grid over the palm, and at the tip of a half-curled index
ThumbTips == {<<x, y>> : x \in {-12, -7, -5, -3, -2, 1, 2, 4},
                          y \in {-13, -11, -10, -7, -5}}
             \cup {<<-3, -19>>}

\* the index finger: knuckle, middle joint, last joint, tip
IndexPoses ==
    [up |-> << <<-4, -10>>, <<-4, -15>>, <<-4, -19>>, <<-4, -22>> >>,
     near |-> << <<-4, -10>>, <<-4, -15>>, <<-3, -19>>, <<-2, -22>> >>,
     crossed |-> << <<-4, -10>>, <<-4, -15>>, <<-1, -19>>, <<1, -22>> >>,
     hooked |-> << <<-4, -10>>, <<-4, -17>>, <<-4, -19>>, <<-4, -18>> >>,
     half |-> << <<-4, -10>>, <<-4, -17>>, <<-4, -19>>, <<-4, -20>> >>,
     down |-> << <<-4, -10>>, <<-4, -14>>, <<-4, -11>>, <<-4, -8>> >>,
     loose |-> << <<-4, -10>>, <<-4, -14>>, <<-4, -5>>, <<-4, 3>> >>]

\* a finger raised or curled over the knuckle at <<mx, my>>
Raised(mx, my) == << <<mx, my>>, <<mx, my - 5>>, <<mx, my - 9>>, <<mx, my - 12>> >>

Curled(mx, my) == << <<mx, my>>, <<mx, my - 4>>, <<mx, my - 1>>, <<mx, my + 2>> >>

Finger(mx, my, up) == IF up THEN Raised(mx, my) ELSE Curled(mx, my)

Pose(thumbTip, index, midUp, rinUp, pinUp) ==
    << <<0, 0>>, <<-3, -2>>, <<-6, -4>>, <<-8, -7>>, thumbTip >>
    \o IndexPoses[index]
    \o Finger(0, -10, midUp) \o Finger(3, -10, rinUp) \o Finger(6, -9, pinUp)

\* a hand whose palm is one hundredth long: four fingers raised, the thumb
\* tip two hundredths from the index knuckle
TinyPose ==
    << <<0, 0>>, <<-1, 0>>, <<-2, 0>>, <<-2, -1>>, <<-3, -1>>,
       <<-1, -1>>, <<-1, -2>>, <<-1, -3>>, <<-1, -4>>,
       <<0, -1>>, <<0, -2>>, <<0, -3>>, <<0, -4>>,
       <<1, -1>>, <<1, -2>>, <<1, -3>>, <<1, -4>>,
       <<2, -1>>, <<2, -2>>, <<2, -3>>, <<2, -4>> >>

\* a hand whose middle knuckle lies on the wrist: the palm has no length
FlatPose == [TinyPose EXCEPT ![10] = <<0, 0>>]

\* a fist turned so that the middle knuckle is left of the index knuckle, the
\* thumb tip between the two
TwistedPose ==
    [Pose(<<-5, -9>>, "down", FALSE, FALSE, FALSE) EXCEPT ![10] = <<-6, -10>>]

\* the pose at a size, as a right hand (side = 1) or a left hand (side = -1),
\* with the wrist at (0.50, 0.90)
Placed(pose, size, side) ==
    [i \in 1..Len(pose) |->
        P(50 + side * size * pose[i][1], 90 + size * pose[i][2], 0)]

GestureHands ==
    {Placed(Pose(t, i, m, r, p), size, side) :
        t \in ThumbTips, i \in DOMAIN IndexPoses, m \in BOOLEAN, r \in BOOLEAN,
        p \in BOOLEAN, size \in 1..MaxSize, side \in {1, -1}}
    \cup {Placed(pose, size, side) :
            pose \in {TinyPose, FlatPose, TwistedPose}, size \in 1..MaxSize, side \in {1, -1}}

GestureArguments == {[landmarks |-> l] : l \in GestureHands}

GestureInit ==
    /\ Mounted
    /\ called \in GestureArguments
    /\ returned = NoAnswer

\* recognizeGeometricGesture(landmarks) on the hand drawn
CallRecognize ==
    /\ op = "init"
    /\ returned' = recognizeGeometricGesture(called.landmarks)
    /\ op' = "recognizeGeometricGesture"
    /\ UNCHANGED <<hook, observed, misses, collection, called, page>>

Gestures == GestureInit /\ [][CallRecognize]_vars

(***************************************************************************)
(* Signing: handleFrame with the sentence, and the Backspace and Clear     *)
(* buttons.  The sentence is a list of characters, a label being one.      *)
(***************************************************************************)
\* the most words a sentence is followed to
MaxWords == 2

\* String.prototype.trim
RECURSIVE Trim(_)
Trim(str) ==
    IF str = <<>> THEN str
    ELSE IF Head(str) = " " THEN Trim(Tail(str))
    ELSE IF str[Len(str)] = " " THEN Trim(SubSeq(str, 1, Len(str) - 1))
    ELSE str

\* str.split(" "): the pieces between single spaces, empty pieces included
RECURSIVE Split(_)
Split(str) ==
    LET spaces == {i \in 1..Len(str) : str[i] = " "}
    IN  IF spaces = {} THEN <<str>>
        ELSE LET last == CHOOSE i \in spaces : \A k \in spaces : k <= i
             IN  Append(Split(SubSeq(str, 1, last - 1)),
                        SubSeq(str, last + 1, Len(str)))

\* str.split(/\s+/): a run of spaces separates once
RECURSIVE SplitWhitespace(_)
SplitWhitespace(str) ==
    LET spaces == {i \in 1..Len(str) : str[i] = " "}
    IN  IF spaces = {} THEN <<str>>
        ELSE LET last == CHOOSE i \in spaces : \A k \in spaces : k <= i
                 first == CHOOSE i \in 1..last :
                              /\ \A k \in i..last : k \in spaces
                              /\ i = 1 \/ (i - 1) \notin spaces
             IN  Append(SplitWhitespace(SubSeq(str, 1, first - 1)),
                        SubSeq(str, last + 1, Len(str)))

\* words.join(" ")
RECURSIVE Join(_)
Join(words) ==
    IF words = <<>> THEN <<>>
    ELSE IF Len(words) = 1 THEN words[1]
    ELSE words[1] \o <<" ">> \o Join(Tail(words))

\* sentenceParts[sentenceParts.length - 1] of sentence.trim().split(/\s+/)
LastWord(str) ==
    LET sentenceParts == SplitWhitespace(Trim(str))
    IN  sentenceParts[Len(sentenceParts)]

\* setSentence(prev => `${prev.trim()} ${result}`)
WithWord(prev, label) == Trim(prev) \o <<" ", label>>

\* the sentence part of handleFrame without the cooldown
AddToSentenceAtOnce(returnedLabel, elapsed) ==
    IF /\ returnedLabel # Null /\ returnedLabel # ""
       /\ confidence > CONFIDENCE_THRESHOLD
       /\ ~isLocked
       /\ LastWord(sentence) # <<returnedLabel>>
    THEN /\ sentence' = WithWord(sentence, returnedLabel)
         /\ sinceAdded' = 0
         /\ addedFor' = elapsed
    ELSE /\ sentence' = sentence
         /\ sinceAdded' = elapsed
         /\ addedFor' = elapsed

\* the sentence part of handleFrame: what the frame returned is added when
\* the render it was called from shows a confidence above 75 and no lock, the
\* last addition is more than the cooldown ago, and the last word differs
AddToSentence(returnedLabel, elapsed) ==
    IF /\ returnedLabel # Null /\ returnedLabel # ""
       /\ confidence > CONFIDENCE_THRESHOLD
       /\ ~isLocked
       /\ elapsed > SENTENCE_ADD_COOLDOWN
       /\ LastWord(sentence) # <<returnedLabel>>
    THEN /\ sentence' = WithWord(sentence, returnedLabel)
         /\ sinceAdded' = 0
         /\ addedFor' = elapsed
    ELSE /\ sentence' = sentence
         /\ sinceAdded' = elapsed
         /\ addedFor' = elapsed

\* ASLRecorder.handleFrame(vector, rawData), whole
HandleFrameSigning(rawLandmarks, gap) ==
    /\ Recognise(rawLandmarks, gap)
    /\ AddToSentence(result', Min(sinceAdded + gap, SinceEpoch))
    /\ Len(SplitWhitespace(Trim(sentence'))) <= MaxWords
    /\ UNCHANGED <<startup, intro>>

SignFrame ==
    \E rawLandmarks \in {NoHand, HandA, HandOne0}, gap \in FrameGaps :
        HandleFrameSigning(rawLandmarks, gap)

\* handleBackspace
HandleBackspace ==
    /\ sentence' = LET words == Split(Trim(sentence))
                   IN  IF Len(words) <= 1 THEN <<>>
                       ELSE Join(SubSeq(words, 1, Len(words) - 1))
    /\ op' = "handleBackspace"
    /\ UNCHANGED <<hook, observed, misses, collection, direct, startup,
                   sinceAdded, addedFor, intro>>

\* onClear: setSentence("")
ClearSentence ==
    /\ sentence' = <<>>
    /\ op' = "onClear"
    /\ UNCHANGED <<hook, observed, misses, collection, direct, startup,
                   sinceAdded, addedFor, intro>>

SignNext == SignFrame \/ HandleBackspace \/ ClearSentence

Signing == Init /\ [][SignNext]_vars

(***************************************************************************)
(* Startup: the effect of useLandmarker that starts the camera and loads   *)
(* the model side by side, each await being a step of its own, and the     *)
(* frames of the detection loop once both are there.                       *)
(***************************************************************************)
\* the page with useLandmarker before its effect has run
StartupInit ==
    /\ Constructed /\ NothingSigned /\ NoBanner
    /\ called = NoCall /\ returned = NoAnswer
    /\ status = "Loading Model..."
    /\ initAt = "idle"
    /\ cameraAt = "idle"
    /\ landmarkerRef = FALSE
    /\ srcObject = FALSE
    /\ isCancelled = FALSE

\* setStatus(text) unless the effect was cancelled
SetStatus(text) == status' = IF isCancelled THEN status ELSE text

\* the effect: startCamera() and initLandmarker() up to their first await
RunEffect ==
    /\ initAt = "idle" /\ cameraAt = "idle"
    /\ \E mediaDevices \in BOOLEAN :
          IF mediaDevices
          THEN /\ SetStatus("Starting Camera...")
               /\ cameraAt' = "getUserMedia"
               /\ initAt' = "resolver"
          ELSE /\ cameraAt' = "skipped"
               /\ initAt' = "skipped"
               /\ UNCHANGED status
    /\ op' = "useEffect"
    /\ UNCHANGED <<landmarkerRef, srcObject, isCancelled,
                   hook, observed, misses, collection, direct, signing, intro>>

\* getUserMedia resolved: the stream is attached and onloadeddata set
StreamAttached ==
    /\ cameraAt = "getUserMedia"
    /\ srcObject' = TRUE
    /\ cameraAt' = "attached"
    /\ op' = "getUserMedia"
    /\ UNCHANGED <<status, initAt, landmarkerRef, isCancelled,
                   hook, observed, misses, collection, direct, signing, intro>>

\* getUserMedia rejected
CameraFailed ==
    /\ cameraAt = "getUserMedia"
    /\ SetStatus("Camera Error")
    /\ cameraAt' = "failed"
    /\ op' = "getUserMedia"
    /\ UNCHANGED <<initAt, landmarkerRef, srcObject, isCancelled,
                   hook, observed, misses, collection, direct, signing, intro>>

\* onloadeddata, with Ready whether or not the model is there
OnLoadedDataReady ==
    /\ cameraAt = "attached"
    /\ SetStatus("Ready")
    /\ cameraAt' = "playing"
    /\ op' = "onloadeddata"
    /\ UNCHANGED <<initAt, landmarkerRef, srcObject, isCancelled,
                   hook, observed, misses, collection, direct, signing, intro>>

\* videoRef.current.onloadeddata
OnLoadedData ==
    /\ cameraAt = "attached"
    /\ SetStatus(IF landmarkerRef THEN "Ready" ELSE "Downloading Model...")
    /\ cameraAt' = "playing"
    /\ op' = "onloadeddata"
    /\ UNCHANGED <<initAt, landmarkerRef, srcObject, isCancelled,
                   hook, observed, misses, collection, direct, signing, intro>>

\* FilesetResolver.forVisionTasks resolved
ResolverLoaded ==
    /\ initAt = "resolver"
    /\ initAt' = "gpu"
    /\ op' = "forVisionTasks"
    /\ UNCHANGED <<status, cameraAt, landmarkerRef, srcObject, isCancelled,
                   hook, observed, misses, collection, direct, signing, intro>>

\* createFromOptions with the GPU delegate rejected: the CPU is tried
GpuFailed ==
    /\ initAt = "gpu"
    /\ initAt' = "cpu"
    /\ op' = "createFromOptions"
    /\ UNCHANGED <<status, cameraAt, landmarkerRef, srcObject, isCancelled,
                   hook, observed, misses, collection, direct, signing, intro>>

\* createFromOptions resolved, with either delegate
ModelLoaded ==
    /\ initAt \in {"gpu", "cpu"}
    /\ landmarkerRef' = TRUE
    /\ initAt' = "done"
    /\ status' = IF ~isCancelled /\ srcObject THEN "Ready" ELSE status
    /\ op' = "createFromOptions"
    /\ UNCHANGED <<cameraAt, srcObject, isCancelled,
                   hook, observed, misses, collection, direct, signing, intro>>

\* the resolver, or createFromOptions with the CPU delegate, rejected
ModelFailed ==
    /\ initAt \in {"resolver", "cpu"}
    /\ initAt' = "failed"
    /\ SetStatus("Failed to load AI.")
    /\ op' = "catch"
    /\ UNCHANGED <<cameraAt, landmarkerRef, srcObject, isCancelled,
                   hook, observed, misses, collection, direct, signing, intro>>

\* the cleanup of the effect
Cleanup ==
    /\ initAt # "idle" /\ ~isCancelled
    /\ isCancelled' = TRUE
    /\ op' = "cleanup"
    /\ UNCHANGED <<status, initAt, cameraAt, landmarkerRef, srcObject,
                   hook, observed, misses, collection, direct, signing, intro>>

\* predictWebcam hands a frame to handleFrame once the video plays and the
\* model is there; the loop of a cancelled effect is not followed
StartupFrame ==
    /\ cameraAt = "playing" /\ landmarkerRef /\ ~isCancelled
    /\ \E rawLandmarks \in {NoHand, HandA, HandOne0}, gap \in FrameGaps :
           HandleFrame(rawLandmarks, gap)
    /\ Len(bufferRef') <= MaxWindow

StartupNext ==
    \/ RunEffect \/ StreamAttached \/ CameraFailed \/ OnLoadedData
    \/ ResolverLoaded \/ GpuFailed \/ ModelLoaded \/ ModelFailed
    \/ Cleanup \/ StartupFrame

Startup == StartupInit /\ [][StartupNext]_vars

\* the video element fires loadeddata once a stream is attached
StartupFair == Startup /\ WF_vars(OnLoadedData)

(***************************************************************************)
(* Banner: IntroBanner (src/unnamed/part_000) with its three timeouts.     *)
(* Time moves in steps of the shortest timeout; a timeout that is due      *)
(* fires before time moves on.                                             *)
(***************************************************************************)
\* the most timeouts of handleDismiss pending at once
MaxPending == 2

\* the component as mounted: the first effect has set the fade-in timeout;
\* the prop has its default or a short value
BannerInit ==
    /\ Constructed /\ Running /\ NothingSigned
    /\ called = NoCall /\ returned = NoAnswer
    /\ isVisible = FALSE
    /\ isDismissed = FALSE
    /\ isMounted = TRUE
    /\ fadeInTimer = FADE_IN_DELAY
    /\ dismissTimer = Idle
    /\ unmountTimers = <<>>
    /\ autoDismissDuration \in {DEFAULT_AUTO_DISMISS, TRANSITION_DURATION}
    /\ shownFor = 0
    /\ dismissedFor = 0

\* FADE_IN_DELAY ms pass while no timeout is due
Tick ==
    /\ fadeInTimer # 0 /\ dismissTimer # 0
    /\ \A i \in DOMAIN unmountTimers : unmountTimers[i] # 0
    /\ fadeInTimer # Idle \/ dismissTimer # Idle \/ unmountTimers # <<>>
    /\ fadeInTimer' = (IF fadeInTimer = Idle THEN Idle ELSE fadeInTimer - FADE_IN_DELAY)
    /\ dismissTimer' = (IF dismissTimer = Idle THEN Idle ELSE dismissTimer - FADE_IN_DELAY)
    /\ unmountTimers' = [i \in DOMAIN unmountTimers |-> unmountTimers[i] - FADE_IN_DELAY]
    /\ shownFor' = IF isVisible THEN shownFor + FADE_IN_DELAY ELSE shownFor
    /\ dismissedFor' = IF isDismissed THEN dismissedFor + FADE_IN_DELAY ELSE dismissedFor
    /\ op' = "tick"
    /\ UNCHANGED <<isVisible, isDismissed, isMounted, autoDismissDuration,
                   hook, observed, misses, collection, direct, startup, signing>>

\* the fade-in timeout: setIsVisible(true), upon which the second effect sets
\* the auto-dismiss timeout
FadeIn ==
    /\ fadeInTimer = 0
    /\ isVisible' = TRUE
    /\ fadeInTimer' = Idle
    /\ dismissTimer' = autoDismissDuration
    /\ op' = "fadeIn"
    /\ UNCHANGED <<isDismissed, isMounted, unmountTimers, autoDismissDuration,
                   shownFor, dismissedFor,
                   hook, observed, misses, collection, direct, startup, signing>>

\* handleDismiss with the component removed at once
HandleDismissAtOnce ==
    /\ isDismissed' = TRUE
    /\ unmountTimers' = Append(unmountTimers, 0)
    /\ UNCHANGED <<isVisible, isMounted, fadeInTimer, autoDismissDuration,
                   shownFor, dismissedFor,
                   hook, observed, misses, collection, direct, startup, signing>>

\* handleDismiss: setIsDismissed(true) and the timeout that unmounts
HandleDismiss ==
    /\ isDismissed' = TRUE
    /\ unmountTimers' = Append(unmountTimers, TRANSITION_DURATION)
    /\ UNCHANGED <<isVisible, isMounted, fadeInTimer, autoDismissDuration,
                   shownFor, dismissedFor,
                   hook, observed, misses, collection, direct, startup, signing>>

\* the auto-dismiss timeout
AutoDismiss ==
    /\ dismissTimer = 0
    /\ dismissTimer' = Idle
    /\ HandleDismiss
    /\ op' = "autoDismiss"

\* the button, there while the component renders
Click ==
    /\ isMounted
    /\ Len(unmountTimers) < MaxPending
    /\ HandleDismiss
    /\ op' = "onClick"
    /\ UNCHANGED dismissTimer

\* a timeout of handleDismiss: setIsMounted(false)
Unmount ==
    /\ \E i \in DOMAIN unmountTimers :
          /\ unmountTimers[i] = 0
          /\ unmountTimers' = [j \in 1..(Len(unmountTimers) - 1) |->
                                  IF j < i THEN unmountTimers[j]
                                  ELSE unmountTimers[j + 1]]
    /\ isMounted' = FALSE
    /\ op' = "unmount"
    /\ UNCHANGED <<isVisible, isDismissed, fadeInTimer, dismissTimer,
                   autoDismissDuration, shownFor, dismissedFor,
                   hook, observed, misses, collection, direct, startup, signing>>

BannerNext == Tick \/ FadeIn \/ AutoDismiss \/ Click \/ Unmount

Banner == BannerInit /\ [][BannerNext]_vars

\* time passes and a timeout that is due fires
BannerFair ==
    /\ Banner
    /\ WF_vars(Tick) /\ WF_vars(FadeIn) /\ WF_vars(AutoDismiss) /\ WF_vars(Unmount)

(***************************************************************************)
(* Properties of the stabilizer                                            *)
(***************************************************************************)
\* the step handles one video frame
FrameHandled == op' = "handleFrame"
\* ... whose landmark list is not empty
HandSeen == Len(frame') > 0
\* ... and which predict reads inside, or after, the hold that follows a lock
HeldFrame == FrameHandled /\ HandSeen /\ heldFor' < SCAN_DELAY_MS
Processed == FrameHandled /\ HandSeen /\ heldFor' >= SCAN_DELAY_MS
\* ... and for which the classifier in use has no candidate
NothingRecognized ==
    \/ modelType = "geometric" /\ Recognized[frame'] = Null
    \/ modelType = "ml" /\ Len(trainingData) < K

Labels(window) == {window[i] : i \in DOMAIN window}
Occurrences(window, label) == Cardinality({i \in DOMAIN window : window[i] = label})
\* the count of the label that occurs most often
Counts(window) == {Occurrences(window, l) : l \in Labels(window)} \cup {0}
ModalCount(window) == CHOOSE n \in Counts(window) : \A m \in Counts(window) : m <= n
\* the last n entries of a sequence
Recent(s, n) == IF Len(s) > n THEN SubSeq(s, Len(s) - n + 1, Len(s)) ELSE s
\* rawConfidence * 0.4 + (frequency / size) * 100 * 0.6, rounded
Combined(rawConf, frequency, size) ==
    Round(4 * rawConf[1] * size + 600 * frequency * rawConf[2], 10 * rawConf[2] * size)
\* after the step the label fills REQUIRED_FRAMES entries of the window, the
\* confidence shown is above the threshold, and the call returned the label
LockMet(label) ==
    /\ Occurrences(bufferRef', label) >= REQUIRED_FRAMES
    /\ confidence' > CONFIDENCE_THRESHOLD
    /\ result' = label

\* C1: a frame with a hand that is handled less than SCAN_DELAY_MS after the
\* recorded lock returns the held label, shows locked, and changes neither
\* the shown label nor the window, whatever gesture the frame shows.
Hysteresis ==
    [][HeldFrame => /\ result' = detectedLabel
                    /\ detectedLabel' = detectedLabel
                    /\ bufferRef' = bufferRef
                    /\ isLocked']_vars
\* "A" is held and locked while a frame showing "1" is handled inside the hold
HysteresisWitness ==
    /\ op = "handleFrame" /\ frame \in Hands /\ heldFor < SCAN_DELAY_MS
    /\ modelType = "geometric" /\ Recognized[frame] = "1"
    /\ detectedLabel = "A" /\ heldBefore = "A" /\ isLocked

\* C2 (as amended): when a processed frame pushes a candidate and a label
\* then fills at least REQUIRED_FRAMES entries while the confidence set is
\* above 75, that label is returned and shown on this very frame, and the
\* lock time is recorded if the label is new; locked = true is shown by the
\* frames with a hand that are handled inside the hold after it.
MajorityVoteLocks ==
    [][/\ (Processed /\ rawResult' # Null) =>
              \A l \in Labels(bufferRef') :
                  (Occurrences(bufferRef', l) >= REQUIRED_FRAMES
                       /\ confidence' > CONFIDENCE_THRESHOLD)
                  => /\ result' = l
                     /\ detectedLabel' = l
                     /\ ~isLocked'
                     /\ (l # detectedLabel => sinceLock' = 0)
       /\ HeldFrame => isLocked' /\ detectedLabel' = detectedLabel]_vars
\* the 25th "A" in a row has locked "A" and the next frame shows it locked
MajorityVoteLocksWitness ==
    /\ op = "handleFrame" /\ frame = HandA /\ heldFor < SCAN_DELAY_MS
    /\ Len(bufferRef) = REQUIRED_FRAMES
    /\ Occurrences(bufferRef, "A") = REQUIRED_FRAMES
    /\ detectedLabel = "A" /\ isLocked
\* C2 as stated: the frame with a hand that follows the frame on which a
\* label's count reached REQUIRED_FRAMES shows that label and locked = true.
MajorityLocksWithinOneFrame ==
    [][(/\ op = "handleFrame" /\ rawResult # Null /\ bufferRef # <<>>
        /\ Len(bufferRef) < PREDICTION_BUFFER_SIZE
        /\ Occurrences(bufferRef, bufferRef[Len(bufferRef)]) = REQUIRED_FRAMES
        /\ FrameHandled /\ HandSeen)
       => /\ detectedLabel' = bufferRef[Len(bufferRef)]
          /\ isLocked']_vars

\* C3 as stated: a frame without landmarks empties the window and the
\* velocity buffer and resets the held label.
IdleResetClearsBoth ==
    [][(FrameHandled /\ ~HandSeen)
       => /\ bufferRef' = <<>>
          /\ motionBuffer' = <<>>
          /\ detectedLabel' = ""]_vars

\* C4 (as amended): the shown label changes only in a frame step, and then
\* either the frame has no hand and the label becomes empty, or the frame is
\* processed after the hold, the new label has met the lock conditions on
\* it, and the lock time is recorded.
HeldLabelReplacement ==
    [][detectedLabel' # detectedLabel =>
          /\ FrameHandled
          /\ \/ ~HandSeen /\ detectedLabel' = ""
             \/ Processed /\ LockMet(detectedLabel') /\ sinceLock' = 0]_vars
\* "1" has replaced the held "A"
HeldLabelReplacementWitness ==
    /\ op = "handleFrame" /\ heldFor = SCAN_DELAY_MS
    /\ heldBefore = "A" /\ detectedLabel = "1" /\ result = "1"
    /\ Occurrences(bufferRef, "1") = REQUIRED_FRAMES
\* C4 as stated: a held label changes only on a processed frame on which a
\* different label has met the lock conditions.
HeldLabelOnlyReconfirmed ==
    [][(detectedLabel # "" /\ detectedLabel' # detectedLabel)
       => Processed /\ LockMet(detectedLabel')]_vars

\* C5 (as amended): a processed frame returns a label exactly when it pushed
\* a candidate, a label then fills at least REQUIRED_FRAMES entries and the
\* confidence set is above 75; the label returned is that modal label; and
\* the lock time is recorded exactly when the label returned differs from
\* the held one, and is left alone otherwise.
LockCondition ==
    [][Processed =>
          /\ result' # Null <=>
                 /\ rawResult' # Null
                 /\ ModalCount(bufferRef') >= REQUIRED_FRAMES
                 /\ confidence' > CONFIDENCE_THRESHOLD
          /\ result' # Null => Occurrences(bufferRef', result') = ModalCount(bufferRef')
          /\ sinceLock' = IF result' # Null /\ result' # detectedLabel
                          THEN 0 ELSE heldFor']_vars
\* "A" is returned again while it is held: no lock time is recorded
LockConditionWitness ==
    /\ op = "handleFrame" /\ heldFor = SCAN_DELAY_MS
    /\ heldBefore = "A" /\ result = "A"
    /\ sinceLock = SCAN_DELAY_MS
    /\ Occurrences(bufferRef, "A") > REQUIRED_FRAMES
\* C5 as stated: ... and the lock time is recorded on every frame that meets
\* both conditions.
LockTimeOnEveryLock ==
    [][Processed =>
          /\ result' # Null <=>
                 /\ rawResult' # Null
                 /\ ModalCount(bufferRef') >= REQUIRED_FRAMES
                 /\ confidence' > CONFIDENCE_THRESHOLD
          /\ sinceLock' = IF result' # Null THEN 0 ELSE heldFor']_vars

\* C6: on a frame with a hand that is processed after the hold while a label
\* is held, accumulation goes on (a candidate is pushed at the end of the
\* window) and the shown label is never emptied: it stays, or it becomes a
\* different label that has met the lock conditions on this frame.
HeldLabelSurvivesHold ==
    [][(Processed /\ detectedLabel # "") =>
          /\ rawResult' # Null =>
                 /\ bufferRef' # <<>>
                 /\ bufferRef'[Len(bufferRef')] = rawResult'
          /\ detectedLabel' # ""
          /\ \/ detectedLabel' = detectedLabel
             \/ LockMet(detectedLabel')]_vars
\* "A" is still shown after the hold while "1" accumulates unconfirmed
HeldLabelSurvivesHoldWitness ==
    /\ op = "handleFrame" /\ heldFor = SCAN_DELAY_MS
    /\ heldBefore = "A" /\ detectedLabel = "A"
    /\ rawResult = "1" /\ result = Null
    /\ Occurrences(bufferRef, "1") > Occurrences(bufferRef, "A")

\* C7 (as amended): a frame that pushes a candidate and leaves at least
\* MIN_BUFFERED entries sets the confidence to the rounded
\* rawConfidence * 0.4 + (frequency / entries buffered) * 100 * 0.6, with
\* the modal count as frequency; with fewer entries it keeps the old value.
ConfidenceOverBuffered ==
    [][(Processed /\ rawResult' # Null) =>
          confidence' = IF Len(bufferRef') >= MIN_BUFFERED
                        THEN Combined(rawConfidence', ModalCount(bufferRef'),
                                      Len(bufferRef'))
                        ELSE confidence]_vars
\* five equal geometric candidates: 90 * 0.4 + (5 / 5) * 60 = 96
ConfidenceOverBufferedWitness ==
    /\ op = "handleFrame" /\ rawResult # Null /\ heldFor = SCAN_DELAY_MS
    /\ Len(bufferRef) = MIN_BUFFERED /\ ModalCount(bufferRef) = MIN_BUFFERED
    /\ rawConfidence = <<GEOMETRIC_CONFIDENCE, 1>>
    /\ confidence = 96
\* C7 as stated: every frame that pushes a candidate sets the confidence
\* with the frequency divided by the configured window size.
ConfidenceOverWindowSize ==
    [][(Processed /\ rawResult' # Null) =>
          confidence' = Combined(rawConfidence', ModalCount(bufferRef'),
                                 PREDICTION_BUFFER_SIZE)]_vars

\* C8 (as amended): a frame that pushes a candidate and leaves at least
\* MIN_BUFFERED entries sets verificationProgress to the rounded
\* frequency / REQUIRED_FRAMES * 100, at most 100, for the modal count after
\* the push; with fewer entries it keeps the old value.
ProgressOfModalCount ==
    [][(Processed /\ rawResult' # Null) =>
          verificationProgress' =
              IF Len(bufferRef') >= MIN_BUFFERED
              THEN Min(100, Round(100 * ModalCount(bufferRef'), REQUIRED_FRAMES))
              ELSE verificationProgress]_vars
\* 26 equal entries: the progress is capped at 100
ProgressOfModalCountWitness ==
    /\ op = "handleFrame" /\ rawResult # Null /\ heldFor = SCAN_DELAY_MS
    /\ ModalCount(bufferRef) = REQUIRED_FRAMES + 1
    /\ verificationProgress = 100
\* C8 as stated: every frame that pushes a candidate sets the progress.
ProgressOnEveryPush ==
    [][(Processed /\ rawResult' # Null) =>
          verificationProgress' =
              Min(100, Round(100 * ModalCount(bufferRef'), REQUIRED_FRAMES))]_vars

\* C9: the window never holds more than PREDICTION_BUFFER_SIZE labels, and a
\* step changes it in one of these ways only: a frame without a hand empties
\* it, a processed frame with a candidate appends the candidate and keeps the
\* most recent PREDICTION_BUFFER_SIZE entries, a processed frame without a
\* candidate drops the oldest entry; so it is the run of the latest pushes.
WindowIsRecentRun ==
    [][/\ Len(bufferRef') <= PREDICTION_BUFFER_SIZE
       /\ bufferRef' =
              IF ~FrameHandled \/ HeldFrame THEN bufferRef
              ELSE IF ~HandSeen THEN <<>>
              ELSE IF rawResult' # Null
                   THEN Recent(Append(bufferRef, rawResult'), PREDICTION_BUFFER_SIZE)
              ELSE IF bufferRef # <<>> THEN Tail(bufferRef)
              ELSE <<>>]_vars
\* a push found the window full of "A" and "1": the oldest "A" went
WindowIsRecentRunWitness ==
    /\ op = "handleFrame" /\ evicted /\ rawResult = "1"
    /\ Len(bufferRef) = PREDICTION_BUFFER_SIZE
    /\ bufferRef[1] = "A"
    /\ bufferRef[PREDICTION_BUFFER_SIZE] = "1"

\* C10: a processed frame with a hand for which the classifier in use has no
\* candidate returns nothing, pushes nothing, drops at most the oldest entry
\* of the window, and leaves the shown label, the lock time and the training
\* set as they were.
NoCandidateFrame ==
    [][(Processed /\ NothingRecognized) =>
          /\ result' = Null
          /\ bufferRef' = IF bufferRef # <<>> THEN Tail(bufferRef) ELSE <<>>
          /\ detectedLabel' = detectedLabel
          /\ sinceLock' = heldFor'
          /\ trainingData' = trainingData]_vars
\* a hand the geometric classifier does not know, seen while "A" is held
NoCandidateFrameWitness ==
    /\ op = "handleFrame" /\ frame = HandNone /\ heldFor = SCAN_DELAY_MS
    /\ modelType = "geometric" /\ rawResult = Null
    /\ detectedLabel = "A" /\ heldBefore = "A"
    /\ Len(bufferRef) >= REQUIRED_FRAMES

(***************************************************************************)
(* Properties of the outputs and of the model selector                     *)
(***************************************************************************)
\* C11: in every reachable state the confidence and the verification
\* progress shown are integers from 0 to 100, and the raw confidence of the
\* last prediction is a percentage from 0 to 100.
OutputsInRange ==
    /\ confidence \in 0..100
    /\ verificationProgress \in 0..100
    /\ rawConfidence[2] > 0
    /\ rawConfidence[1] >= 0
    /\ rawConfidence[1] <= 100 * rawConfidence[2]
\* a full window of one neighbour label at 60%: 60 * 0.4 + 60 = 84, while
\* the progress of its 30 entries (120%) is shown as 100
OutputsInRangeWitness ==
    /\ op = "handleFrame" /\ modelType = "ml"
    /\ Len(bufferRef) = PREDICTION_BUFFER_SIZE
    /\ Occurrences(bufferRef, "B") = PREDICTION_BUFFER_SIZE
    /\ rawConfidence = <<300, 5>>
    /\ confidence = 84 /\ verificationProgress = 100

\* C12: the switch to ml mode is possible whatever the size of the training
\* set, and a frame with a hand handled in ml mode while the set has fewer
\* than K samples has no candidate: the classifier yields none, nothing is
\* pushed into the window, predict returns null (or, inside a hold, the label
\* already held) and the status is "Analysing..." (or, inside a hold, the
\* status it was).
NeighborModeBelowK ==
    /\ [](ENABLED SetModelType("ml"))
    /\ [][(FrameHandled /\ HandSeen /\ modelType = "ml" /\ Len(trainingData) < K)
            => /\ rawResult' = Null
               /\ path' \in {"NoCandidate", "Hold"}
               /\ path' = "NoCandidate"
                    => result' = Null /\ debugStatus' = Status("Analysing...", "", 0)
               /\ path' = "Hold"
                    => result' = detectedLabel /\ debugStatus' = debugStatus
               /\ Len(bufferRef') <= Len(bufferRef)
               /\ modelType' = "ml"]_vars
\* a frame with a hand in ml mode on a set of one to four recorded samples
NeighborModeBelowKWitness ==
    /\ op = "handleFrame" /\ frame = HandA
    /\ modelType = "ml" /\ Len(trainingData) \in 1..(K - 1)
    /\ path = "NoCandidate" /\ result = Null
    /\ debugStatus = Status("Analysing...", "", 0)

\* C18: clearModel leaves an empty training set (size 0, no classes) and the
\* mode "geometric" whatever the mode was, and a frame with a hand handled
\* right after it outside a hold is classified by the geometric classifier:
\* its raw result and raw confidence are those of the geometric phase.
ClearFallsBackToGeometric ==
    [][/\ op' = "clearModel"
            => /\ trainingData' = <<>> /\ mlDataSize' = 0 /\ trainedClasses' = <<>>
               /\ modelType' = "geometric"
       /\ (op = "clearModel" /\ Processed)
            => /\ rawResult' = GeometricPhase(frame').rawResult
               /\ rawConfidence' = GeometricPhase(frame').rawConfidence
               /\ rawResult' = Recognized[frame']]_vars
\* a clear that came while the window held the neighbour label of the frame
\* before
ClearFallsBackToGeometricWitness ==
    /\ op = "clearModel" /\ frame = HandA
    /\ rawResult = "B" /\ bufferRef = <<"B">>
    /\ trainingData = <<>> /\ mlDataSize = 0 /\ trainedClasses = <<>>
    /\ modelType = "geometric"

\* the lengths of the vectors of a training set
VectorLengths(data) == {Len(data[i].vector) : i \in DOMAIN data}

\* C19: a load replaces the training set in one step: after loadMLModel(data)
\* the set is exactly data, whatever its vector lengths, with the size and
\* the class list of data, and nothing else of the hook is touched; in every
\* state the size and class list shown belong to the whole current set, and
\* the ml classification of the next frame is predictKNN on exactly that set.
LoadIsAtomicSwap ==
    /\ [](mlDataSize = Len(trainingData) /\ trainedClasses = UniqueLabels(trainingData))
    /\ [][/\ op' = "loadMLModel"
               => /\ trainingData' \in TrainFiles
                  /\ \A data \in TrainFiles : LoadMLModel(data) => trainingData' = data
                  /\ UNCHANGED <<modelType, bufferRef, detectedLabel, collection>>
          /\ (op = "loadMLModel" /\ Processed /\ modelType = "ml")
               => /\ \E shown \in {frame'} :
                        rawResult' = predictKNN(WristRelative(shown, 1), trainingData).label
                  /\ trainingData' = trainingData]_vars
\* the ragged file loaded over a set of three "B" and two "C", which the
\* frame before (60% for "B") was classified with
LoadIsAtomicSwapWitness ==
    /\ op = "loadMLModel" /\ trainingData = RaggedSet
    /\ VectorLengths(trainingData) = {63, 3, 0}
    /\ mlDataSize = 5 /\ trainedClasses = <<"B", "C">>
    /\ modelType = "ml" /\ rawResult = "B" /\ rawConfidence = <<300, 5>>

\* the labels of a training set, in order
LabelsOf(data) == [i \in DOMAIN data |-> data[i].label]

\* C20: the training set changes only by clearModel, loadMLModel and
\* addToModel.  addToModel with recorded samples keeps the set as a prefix
\* and appends one sample per recorded entry, in order, each with the label
\* of the last startCollecting and the wrist-relative vector of its frame;
\* with nothing recorded it changes nothing.  The recorded entries are those
\* of the frames sampled since the last startCollecting: startCollecting
\* empties the buffer, a frame leaves it or appends its own landmarks under
\* the active label, and nothing else touches it before addToModel.
TrainingSetAppendOnly ==
    /\ [](/\ \A i \in DOMAIN dataBuffer : dataBuffer[i].label = activeLabel
          /\ sampleCount = Len(dataBuffer))
    /\ [][/\ (op' = "addToModel" /\ dataBuffer # <<>>)
               => /\ Len(trainingData') = Len(trainingData) + Len(dataBuffer)
                  /\ SubSeq(trainingData', 1, Len(trainingData)) = trainingData
                  /\ \A i \in DOMAIN dataBuffer :
                        trainingData'[Len(trainingData) + i] =
                            Sample(activeLabel, WristRelative(dataBuffer[i].landmarks, 1))
                  /\ dataBuffer' = <<>>
          /\ (op' = "addToModel" /\ dataBuffer = <<>>)
               => UNCHANGED <<hook, collection>>
          /\ op' = "startCollecting" => dataBuffer' = <<>>
          /\ op' = "handleFrame"
               => /\ UNCHANGED <<trainingData, mlDataSize, trainedClasses>>
                  /\ \/ dataBuffer' = dataBuffer
                     \/ /\ collecting /\ HandSeen
                        /\ dataBuffer' = Append(dataBuffer,
                               [label |-> activeLabel, landmarks |-> frame'])
          /\ op' \notin {"addToModel", "startCollecting", "handleFrame"}
               => dataBuffer' = dataBuffer
          /\ op' \notin {"addToModel", "loadMLModel", "clearModel"}
               => trainingData' = trainingData]_vars
\* a take of one "C" added to a set of two "B": the two stay first
TrainingSetAppendOnlyWitness ==
    /\ op = "addToModel" /\ activeLabel = "C"
    /\ LabelsOf(trainingData) = <<"B", "B", "C">>
    /\ \A i \in DOMAIN trainingData : trainingData[i].vector = WristRelative(HandA, 1)
    /\ dataBuffer = <<>> /\ ~collecting /\ modelType = "ml" /\ mlDataSize = 3

(***************************************************************************)
(* Properties of predictKNN                                                *)
(***************************************************************************)
\* the call has returned
Returned == op = "predictKNN"
\* the distance of sample i of the call from the query, Infinity when the
\* lengths differ
DistanceOf(i) ==
    IF Len(called.data[i].vector) # Len(called.inputVector) THEN Infinity
    ELSE Sqrt(SumSeq([c \in DOMAIN called.inputVector |->
                        (called.inputVector[c] - called.data[i].vector[c])
                        * (called.inputVector[c] - called.data[i].vector[c])]))
\* i is strictly nearer than j
Nearer(i, j) ==
    /\ DistanceOf(i) # Infinity
    /\ DistanceOf(j) = Infinity \/ DistanceOf(i) < DistanceOf(j)
\* the sets of min(K, n) samples than which no other sample is nearer
NearestSets ==
    LET all == DOMAIN called.data
        size == IF Cardinality(all) < K THEN Cardinality(all) ELSE K
    IN  {N \in SUBSET all :
            /\ Cardinality(N) = size
            /\ \A i \in N, j \in all \ N : ~Nearer(j, i)}
\* 1/(distance + 0.0001) of sample i in units of 1/Scale(N), where Scale(N)
\* is the product of the distinct values of 100 * distance + 1 in N
Scale(N) == Product({100 * DistanceOf(i) + 1 : i \in {j \in N : DistanceOf(j) # Infinity}})
InverseDistance(scale, i) ==
    IF DistanceOf(i) = Infinity THEN 0 ELSE scale \div (100 * DistanceOf(i) + 1)
\* the summed weight of a label in N, and of all of N
SummedWeight(N, label) ==
    LET scale == Scale(N)
    IN  SumSeq([i \in DOMAIN called.data |->
                  IF i \in N /\ called.data[i].label = label
                  THEN InverseDistance(scale, i) ELSE 0])
TotalWeight(N) ==
    LET scale == Scale(N)
    IN  SumSeq([i \in DOMAIN called.data |->
                  IF i \in N THEN InverseDistance(scale, i) ELSE 0])

\* C13: predictKNN on a non-empty list answers for a set N of the min(K, n)
\* nearest samples: the label returned is a label of N whose summed weight
\* 1/(distance + 0.0001) over N is not exceeded by any label of N, and when
\* the total weight of N is positive the confidence is 100 times that summed
\* weight over the total weight, at most 100.
WeightedVoteOfNearest ==
    (Returned /\ called.data # <<>>) =>
        \E N \in NearestSets :
            /\ returned.label \in {called.data[i].label : i \in N}
            /\ \A i \in N : SummedWeight(N, called.data[i].label)
                              <= SummedWeight(N, returned.label)
            /\ TotalWeight(N) > 0 =>
                 /\ returned.confidence =
                        <<100 * SummedWeight(N, returned.label), TotalWeight(N)>>
                 /\ returned.confidence[1] <= 100 * returned.confidence[2]
\* six samples, far ones first in the list: the five taken hold three "1" at
\* 0.02 and the two "A" at 0, and "A" wins by weight, 402 of 405
WeightedVoteOfNearestWitness ==
    /\ Returned /\ called.inputVector = <<0>>
    /\ called.data = <<Sample("1", <<2>>), Sample("1", <<2>>), Sample("1", <<2>>),
                       Sample("A", <<0>>), Sample("1", <<2>>), Sample("A", <<0>>)>>
    /\ returned.label = "A" /\ returned.confidence = <<40200, 405>>

\* the list with the samples at positions i and i + 1 exchanged
Exchanged(list, i) ==
    [j \in DOMAIN list |-> IF j = i THEN list[i + 1]
                           ELSE IF j = i + 1 THEN list[i] ELSE list[j]]
\* the answer for the list of the call does not change when two adjacent
\* samples are exchanged; every reordering is a chain of such exchanges, and
\* every list of the bound is the list of some call
SameWhenExchanged ==
    \A i \in 1..(Len(called.data) - 1) :
        predictKNN(called.inputVector, Exchanged(called.data, i)) = returned
\* the labels of a set of samples of the call
LabelsIn(N) == {called.data[i].label : i \in N}
\* whichever nearest samples are taken, each label has the same summed weight
NeighboursDetermined ==
    \A N1 \in NearestSets, N2 \in NearestSets :
        /\ LabelsIn(N1) = LabelsIn(N2)
        /\ \A label \in LabelsIn(N1) : SummedWeight(N1, label) = SummedWeight(N2, label)
\* one label is strictly heavier than every other label
OneHeaviest ==
    \A N \in NearestSets :
        \E label \in LabelsIn(N) :
            \A other \in LabelsIn(N) \ {label} :
                SummedWeight(N, other) < SummedWeight(N, label)

\* C14 as stated: the answer is the same for every reordering of the list,
\* ties in distance or in weight included.
ReorderingInvariant == Returned => SameWhenExchanged

\* C14: the answer is the same for every reordering of the list when the
\* choice among equidistant samples at the K-th place does not change the
\* summed weight of any label and one label is strictly heaviest.
ReorderingInvariantWithoutTies ==
    Returned => (SameWhenExchanged \/ ~NeighboursDetermined \/ ~OneHeaviest)
\* six samples, the far one first: the five at 0 are taken in any order, and
\* "A" has three fifths of their weight
ReorderingInvariantWithoutTiesWitness ==
    /\ Returned /\ called.inputVector = <<0>>
    /\ called.data = <<Sample("1", <<2>>), Sample("1", <<0>>), Sample("A", <<0>>),
                       Sample("1", <<0>>), Sample("A", <<0>>), Sample("A", <<0>>)>>
    /\ NeighboursDetermined /\ OneHeaviest
    /\ returned.label = "A" /\ returned.confidence = <<300, 5>>

\* the samples of the call whose vectors have the length of the query
Matching(data) == SelectSeq(data, LAMBDA s : Len(s.vector) = Len(called.inputVector))

\* C15 as stated: samples of another length than the query are excluded: the
\* call returns (without failing) what it returns for the list without
\* them, and a label it returns is the label of a sample of the right length.
MismatchedSamplesExcluded ==
    Returned =>
        /\ returned = predictKNN(called.inputVector, Matching(called.data))
        /\ returned.label # Null
             => \E i \in DOMAIN called.data :
                   /\ Len(called.data[i].vector) = Len(called.inputVector)
                   /\ called.data[i].label = returned.label

\* the same statement for the calls in which a sample has the length of the
\* query
MismatchedExcludedAmongMatching ==
    (Returned /\ Matching(called.data) # <<>>) =>
        /\ returned = predictKNN(called.inputVector, Matching(called.data))
        /\ \E i \in DOMAIN called.data :
              /\ Len(called.data[i].vector) = Len(called.inputVector)
              /\ called.data[i].label = returned.label

\* the stable sort puts sample i of the list before sample j
Earlier(i, j) == Nearer(i, j) \/ (~Nearer(j, i) /\ i < j)
\* the samples taken as neighbours: those with fewer than K samples before them
TakenSet ==
    {i \in DOMAIN called.data :
        Cardinality({j \in DOMAIN called.data : Earlier(j, i)}) < K}
\* among the neighbours N, label a is met before label b
MetBefore(N, a, b) ==
    \E i \in N : /\ called.data[i].label = a
                 /\ \A j \in N : called.data[j].label = b => Earlier(i, j)
\* Object.keys lists a before b: keys that are array indices come first in
\* ascending order, the other keys follow in the order they were created
EnumeratedBefore(N, a, b) ==
    IF IndexValue(a) >= 0
    THEN IndexValue(b) < 0 \/ IndexValue(a) < IndexValue(b)
    ELSE IndexValue(b) < 0 /\ MetBefore(N, a, b)
\* the labels of the neighbours N that no label of N outweighs
Heaviest(N) ==
    {label \in LabelsIn(N) :
        \A other \in LabelsIn(N) : SummedWeight(N, other) <= SummedWeight(N, label)}

\* C16: the label returned is one of the heaviest labels of the neighbours
\* taken, and when several labels are heaviest with equal weight it is the
\* one that Object.keys(votes) lists before the others.
TieGoesToFirstEnumerated ==
    (Returned /\ called.data # <<>>) =>
        \E N \in {TakenSet} :
            /\ returned.label \in Heaviest(N)
            /\ \A other \in Heaviest(N) \ {returned.label} :
                  EnumeratedBefore(N, returned.label, other)
\* "A" met first, "1" second, equal weights: "1" is listed first and wins
TieGoesToFirstEnumeratedWitness ==
    /\ Returned /\ called.inputVector = <<0>>
    /\ called.data = <<Sample("A", <<0>>), Sample("1", <<0>>)>>
    /\ Heaviest(TakenSet) = {"A", "1"}
    /\ returned.label = "1" /\ returned.confidence = <<100, 2>>

\* C17: for the samples {A, [0,0,0]}, {A, [0,0,0]}, {B, [10,10,10]} and the
\* query [0,0,0] predictKNN returns "A" with a confidence of at least 99 and
\* at most 100: the three samples, fewer than K, are all neighbours and the
\* call returns a result.  The distance of "B", the root of 300, is rounded
\* down to 17.32, which makes its weight larger and the confidence of "A"
\* smaller than the exact value.
ExampleReturnsA ==
    (Returned /\ called.data = ExampleSet /\ called.inputVector = <<0, 0, 0>>) =>
        /\ returned.label = "A"
        /\ returned.confidence[1] >= 99 * returned.confidence[2]
        /\ returned.confidence[1] <= 100 * returned.confidence[2]
        /\ TakenSet = {1, 2, 3}
\* the call on the example: two weights of 1/0.0001 against one of
\* 1/(17.32 + 0.0001)
ExampleReturnsAWitness ==
    /\ Returned /\ called.data = ExampleSet /\ called.inputVector = <<0, 0, 0>>
    /\ Len(called.data) < K
    /\ DistanceOf(3) = 1732
    /\ returned.label = "A" /\ returned.confidence = <<34640200, 346403>>

(***************************************************************************)
(* Properties of recognizeGeometricGesture                                 *)
(***************************************************************************)
\* the call of recognizeGeometricGesture has returned
Recognised == op = "recognizeGeometricGesture"

\* the factors k = n/d of a scaling, within [0.5, 2.0]
Factors == {<<1, 2>>, <<2, 3>>, <<3, 2>>, <<2, 1>>}

\* every coordinate of the scaled hand is a whole number of hundredths
ScalesExactly(landmarks, n, d) ==
    \A i \in 1..Len(landmarks) :
        /\ ((landmarks[i].x - landmarks[1].x) * n) % d = 0
        /\ ((landmarks[i].y - landmarks[1].y) * n) % d = 0
        /\ (landmarks[i].z * n) % d = 0

\* the hand scaled about its wrist by n/d
ScaledAbout(landmarks, n, d) ==
    [i \in 1..Len(landmarks) |->
        P(landmarks[1].x + ((landmarks[i].x - landmarks[1].x) * n) \div d,
          landmarks[1].y + ((landmarks[i].y - landmarks[1].y) * n) \div d,
          (landmarks[i].z * n) \div d)]

\* the squared length of the palm, wrist to middle knuckle, in hundredths
PalmSquared(landmarks) ==
    (landmarks[1].x - landmarks[10].x) * (landmarks[1].x - landmarks[10].x)
    + (landmarks[1].y - landmarks[10].y) * (landmarks[1].y - landmarks[10].y)

\* C21: scaling every landmark about the wrist by a factor in [0.5, 2.0]
\* leaves the result of recognizeGeometricGesture the same, for every hand.
ScaleInvariance ==
    Recognised =>
        \A k \in Factors :
            ScalesExactly(called.landmarks, k[1], k[2]) =>
                recognizeGeometricGesture(ScaledAbout(called.landmarks, k[1], k[2]))
                    = returned

\* The same for the hands whose palm is longer than 0.01 before and after
\* the scaling.
ScaleInvarianceOfLongPalms ==
    Recognised =>
        \A k \in Factors :
            LET scaled == ScaledAbout(called.landmarks, k[1], k[2])
            IN  (/\ ScalesExactly(called.landmarks, k[1], k[2])
                 /\ PalmSquared(called.landmarks) > 1
                 /\ PalmSquared(scaled) > 1) =>
                    recognizeGeometricGesture(scaled) = returned

Between(landmarks, i, j) ==
    (At(landmarks, i).x - At(landmarks, j).x) * (At(landmarks, i).x - At(landmarks, j).x)
    + (At(landmarks, i).y - At(landmarks, j).y) * (At(landmarks, i).y - At(landmarks, j).y)

PalmScale(landmarks) ==
    IF PalmSquared(landmarks) > 1 THEN PalmSquared(landmarks) ELSE 100

\* the normalised distance of landmarks i and j is below / above n/100
Nearer100(landmarks, i, j, n) ==
    Between(landmarks, i, j) * 10000 < n * n * PalmScale(landmarks)

Farther100(landmarks, i, j, n) ==
    Between(landmarks, i, j) * 10000 > n * n * PalmScale(landmarks)

\* finger f (1 index .. 4 pinky): the tip is more than 1.2 times as far from
\* the wrist as the middle joint
TipBeyondJoint(landmarks, f) ==
    Between(landmarks, 4 * f + 4, 0) * 100 > Between(landmarks, 4 * f + 2, 0) * 144

ExtendedFingers(landmarks) == {f \in 1..4 : TipBeyondJoint(landmarks, f)}

\* the hand is a right hand as the classifier infers it from the knuckles
KnucklesOfRightHand(landmarks) == At(landmarks, 5).x < At(landmarks, 17).x

\* landmark i is past landmark j, towards the pinky side
Past(landmarks, i, j) ==
    IF KnucklesOfRightHand(landmarks) THEN At(landmarks, i).x > At(landmarks, j).x
    ELSE At(landmarks, i).x < At(landmarks, j).x

\* the checks of the zero-fingers bucket, in the order of the claim
HookShape(landmarks) ==
    Farther100(landmarks, 8, 5, 70) /\ Nearer100(landmarks, 8, 5, 130)

ThumbCrossed(landmarks) ==
    Past(landmarks, 4, 9) /\ At(landmarks, 4).y < At(landmarks, 5).y

ThumbSandwiched(landmarks) ==
    /\ Past(landmarks, 5, 4)
    /\ Past(landmarks, 4, 9)
    /\ Nearer100(landmarks, 4, 6, 60)

ThumbLow(landmarks) ==
    /\ At(landmarks, 4).y > At(landmarks, 5).y
    /\ Nearer100(landmarks, 4, 5, 70)
    /\ Nearer100(landmarks, 8, 5, 85)

FistChecks(landmarks) ==
    << [label |-> "X", holds |-> HookShape(landmarks)],
       [label |-> "S", holds |-> ThumbCrossed(landmarks)],
       [label |-> "T", holds |-> ThumbSandwiched(landmarks)],
       [label |-> "E", holds |-> ThumbLow(landmarks)],
       [label |-> "M", holds |-> Past(landmarks, 4, 13)],
       [label |-> "N", holds |-> Past(landmarks, 4, 9)],
       [label |-> "A", holds |-> TRUE] >>

\* the label of the first check of the list that holds
FirstMatch(checks) ==
    checks[CHOOSE i \in 1..Len(checks) :
              checks[i].holds /\ \A j \in 1..(i - 1) : ~checks[j].holds].label

\* the curved-hand check made ahead of the buckets returns O or C
CurvedShape(landmarks) ==
    /\ Farther100(landmarks, 8, 5, 90)
    /\ Nearer100(landmarks, 4, 8, 130)
    /\ ~(Between(landmarks, 4, 8) * 10000 = 35 * 35 * PalmScale(landmarks))

\* C23 as claimed: with no finger extended the label is that of the first
\* check that holds in the order X, S, T, E, M, N, A; in particular X
\* whenever the hook-shape test holds.
FistPriorityOrder ==
    (Recognised /\ ExtendedFingers(called.landmarks) = {}) =>
        returned = FirstMatch(FistChecks(called.landmarks))

\* C23: with no finger extended, and the curved-hand check (O / C) made ahead
\* of the bucket not matching, the label is that of the first check that
\* holds in the order X, S, T, E, M, N, A; when the curved-hand check matches
\* the label is O or C.
FistPriorityAfterCurved ==
    (Recognised /\ ExtendedFingers(called.landmarks) = {}) =>
        IF CurvedShape(called.landmarks)
        THEN returned \in {"O", "C"}
        ELSE returned = FirstMatch(FistChecks(called.landmarks))

\* a hooked index with the thumb crossed over the palm has been labelled X
FistPriorityAfterCurvedWitness ==
    /\ Recognised
    /\ ExtendedFingers(called.landmarks) = {}
    /\ ~CurvedShape(called.landmarks)
    /\ HookShape(called.landmarks)
    /\ ThumbCrossed(called.landmarks)
    /\ returned = "X"

\* C24: with all four non-thumb fingers extended the label is "4" when the
\* thumb tip is nearer than 0.6 to the index knuckle and "5" otherwise, and
\* never anything else.
FourFingersFourOrFive ==
    (Recognised /\ ExtendedFingers(called.landmarks) = 1..4) =>
        returned = IF Nearer100(called.landmarks, 4, 5, 60) THEN "4" ELSE "5"

\* an open hand with the thumb tucked at the index knuckle has been labelled 4
FourFingersFourOrFiveWitness ==
    /\ Recognised
    /\ ExtendedFingers(called.landmarks) = 1..4
    /\ PalmSquared(called.landmarks) > 1
    /\ Nearer100(called.landmarks, 4, 5, 60)
    /\ returned = "4"

\* the labels each count of extended non-thumb fingers allows
BucketLabels ==
    [n \in 0..4 |->
        CASE n = 4 -> {"4", "5"}
          [] n = 3 -> {"W", "F", "OK", Null}
          [] n = 2 -> {"3", "K", "R", "U", "V", Null}
          [] n = 1 -> {"L", "D", "1", "Y", "I", Null}
          [] n = 0 -> {"O", "C", "X", "S", "T", "E", "M", "N", "A"}]

\* C29: the result is confined by the count of extended non-thumb fingers:
\* 4 gives 4 or 5; 3 gives W, F, OK or none; 2 gives 3, K, R, U, V or none;
\* 1 gives L, D, 1, Y, I or none; 0 gives one of O, C, X, S, T, E, M, N, A
\* and never none.
BucketsConfineLabels ==
    Recognised =>
        returned \in BucketLabels[Cardinality(ExtendedFingers(called.landmarks))]

\* index, middle and pinky extended: three fingers and no label
BucketsConfineLabelsWitness ==
    /\ Recognised
    /\ ExtendedFingers(called.landmarks) = {1, 2, 4}
    /\ returned = Null

\* the index and the middle finger are the two extended
IndexAndMiddleOnly(landmarks) == ExtendedFingers(landmarks) = {1, 2}

\* the thumb is extended: its tip is more than 1.3 times as far from the pinky
\* knuckle as its own knuckle is, and farther from its knuckle than its joint
ThumbOut(landmarks) ==
    /\ Between(landmarks, 4, 17) * 100 > Between(landmarks, 2, 17) * 169
    /\ Between(landmarks, 4, 2) > Between(landmarks, 3, 2)

\* the rules of the two-fingers bucket for index and middle, in order
TwoFingerChecks(landmarks) ==
    << [label |-> "3", holds |-> ThumbOut(landmarks)],
       [label |-> "K", holds |-> /\ At(landmarks, 4).y < At(landmarks, 5).y
                                 /\ Nearer100(landmarks, 4, 6, 60)
                                 /\ ~ThumbOut(landmarks)],
       [label |-> "R", holds |-> Past(landmarks, 8, 12)],
       [label |-> "U", holds |-> Nearer100(landmarks, 8, 12, 35)],
       [label |-> "V", holds |-> TRUE] >>

\* C30: with index and middle the two fingers extended the rules are tried
\* in the order 3, K, R, U, V and the first that matches gives the label; a
\* crossed shape is R even with the tips within the U distance, on a left
\* hand as on a right hand.
TwoFingerPriorityOrder ==
    (Recognised /\ IndexAndMiddleOnly(called.landmarks)) =>
        returned = FirstMatch(TwoFingerChecks(called.landmarks))

\* crossed fingers whose tips are within the U distance, on a left hand, have
\* been labelled R
TwoFingerPriorityOrderWitness ==
    /\ Recognised
    /\ IndexAndMiddleOnly(called.landmarks)
    /\ ~KnucklesOfRightHand(called.landmarks)
    /\ At(called.landmarks, 8).x < At(called.landmarks, 12).x
    /\ Nearer100(called.landmarks, 8, 12, 35)
    /\ returned = "R"

(***************************************************************************)
(* Properties of the motion override and of malformed frames               *)
(***************************************************************************)
\* the frame just handled went through the raw prediction phase
Classifying == op = "handleFrame" /\ path \in {"Warmup", "Stable", "Unstable", "NoCandidate"}

\* the candidate of the classifier in use for that frame, before any override
OwnCandidate ==
    IF modelType = "geometric" THEN recognizeGeometricGesture(frame)
    ELSE IF Len(trainingData) >= K
         THEN predictKNN(WristRelative(frame, 1), trainingData).label
    ELSE Null

\* C25: the motion override replaces only eligible candidates: a frame's
\* candidate differs from the one of the classifier in use only in geometric
\* mode, only when the static candidate is 1 or D, and then it is Z; a Z of
\* geometric mode always stands on a static 1 or D.
OverrideOnlyEligible ==
    /\ Classifying =>
          \/ rawResult = OwnCandidate
          \/ /\ modelType = "geometric"
             /\ OwnCandidate \in {"1", "D"}
             /\ rawResult = "Z"
    /\ (op = "handleFrame" /\ modelType = "geometric" /\ rawResult = "Z") =>
          Classifying /\ recognizeGeometricGesture(frame) \in {"1", "D"}

\* a raised index finger that moved has been turned into Z
OverrideOnlyEligibleWitness ==
    /\ Classifying
    /\ modelType = "geometric"
    /\ recognizeGeometricGesture(frame) = "1"
    /\ rawResult = "Z"
    /\ motionBuffer = <<9>>

\* the displacement of the index fingertip between two frames, in hundredths
TipDisplacement(before, after) ==
    Sqrt((At(after, 8).x - At(before, 8).x) * (At(after, 8).x - At(before, 8).x)
         + (At(after, 8).y - At(before, 8).y) * (At(after, 8).y - At(before, 8).y))

\* the step handles a frame in geometric mode whose static candidate is
\* eligible, after an earlier eligible frame: a velocity sample is pushed
SamplePushed ==
    /\ op' = "handleFrame"
    /\ modelType = "geometric"
    /\ path' \in {"Warmup", "Stable", "Unstable", "NoCandidate"}
    /\ recognizeGeometricGesture(frame') \in {"1", "D"}
    /\ prevIndexPos # <<>>

\* C26 as claimed: the motion buffer holds at most 5 samples, the candidate
\* becomes Z exactly when the mean of the buffered samples exceeds 0.04, and
\* the sample pushed on a frame that follows a classified frame is the
\* displacement of the index fingertip between the two.
MotionBufferOfConsecutiveFrames ==
    [][/\ Len(motionBuffer') <= 5
       /\ SamplePushed =>
             /\ (rawResult' = "Z") <=> (SumSeq(motionBuffer') > 4 * Len(motionBuffer'))
             /\ (Classifying /\ Len(frame) >= 21) =>
                    motionBuffer'[Len(motionBuffer')] = TipDisplacement(frame, frame')]_vars

\* C27 as claimed: after every frame whose candidate is outside the eligible
\* set (another label, or none), in any mode and any state of the
\* stabilizer, the motion buffer is empty.
MotionBufferReset ==
    (op = "handleFrame" /\ rawResult \notin {"1", "D", "Z"}) => motionBuffer = <<>>

\* C28 as claimed: a frame whose landmark list is not empty and not 21 long
\* is skipped: it gives no candidate and leaves the window, the held label
\* and the time of the lock as they were.
MalformedFrameSkipped ==
    [][(op' = "handleFrame" /\ Len(frame') > 0 /\ Len(frame') # 21) =>
          /\ rawResult' = Null
          /\ bufferRef' = bufferRef
          /\ detectedLabel' = detectedLabel
          /\ sinceLock' = heldFor']_vars

(***************************************************************************)
(* Properties of the hold and of the locked flag                           *)
(***************************************************************************)
\* C31: a frame with a hand handled inside the hold (less than 600 ms after
\* the recorded lock) returns the held label and leaves the window, the
\* motion buffer, the previous fingertip position, the time of the lock, the
\* confidence and the progress as they were; no classifier runs on it.
HoldLeavesAllUnchanged ==
    [][HeldFrame =>
          /\ result' = detectedLabel
          /\ path' = "Hold" /\ rawResult' = Null
          /\ bufferRef' = bufferRef
          /\ motionBuffer' = motionBuffer
          /\ prevIndexPos' = prevIndexPos
          /\ sinceLock' = heldFor'
          /\ confidence' = confidence
          /\ verificationProgress' = verificationProgress]_vars

\* a held frame has returned the held label over a window and a motion buffer
\* that are not empty
HoldLeavesAllUnchangedWitness ==
    /\ op = "handleFrame" /\ Len(frame) > 0 /\ path = "Hold"
    /\ heldFor < SCAN_DELAY_MS
    /\ result = "1" /\ detectedLabel = "1"
    /\ Len(bufferRef) >= REQUIRED_FRAMES
    /\ motionBuffer # <<>>

\* C32 as claimed: whenever the locked flag is true the held label is not
\* empty.
LockedHasLabel == isLocked => detectedLabel # ""

(***************************************************************************)
(* Properties of the window across the model controls                      *)
(***************************************************************************)
\* the labels recognizeGeometricGesture and the motion override can give
GeometricLabels == (UNION {BucketLabels[n] : n \in 0..4} \ {Null}) \cup {"Z"}

\* C33 as claimed: a label returned by a frame classified in ml mode is the
\* label of a sample of the training set as it is then, and a label returned
\* in geometric mode (where clearModel leaves the hook) is one of the
\* geometric classifier: no label is carried over from the other classifier
\* or from a set that was replaced or cleared.
ReturnedLabelOfCurrentModel ==
    (Classifying /\ result # Null) =>
        IF modelType = "ml"
        THEN result \in {trainingData[i].label : i \in DOMAIN trainingData}
        ELSE result \in GeometricLabels

(***************************************************************************)
(* Properties of the lock threshold                                        *)
(***************************************************************************)
\* C34: in geometric mode the confidence threshold never blocks a lock: for
\* a modal frequency of 25 or more in a window of at most 30 entries and a
\* raw confidence of 90 or 95 the combined confidence is above 75, and a
\* decided frame of geometric mode returns a label exactly when the modal
\* frequency has reached 25.
GeometricLockOnFrequency ==
    /\ \A frequency \in REQUIRED_FRAMES..PREDICTION_BUFFER_SIZE :
          \A length \in frequency..PREDICTION_BUFFER_SIZE :
              \A raw \in {GEOMETRIC_CONFIDENCE, MOTION_CONFIDENCE} :
                  FinalConfidence(<<raw, 1>>, frequency, length) > 75
    /\ (op = "handleFrame" /\ modelType = "geometric"
            /\ path \in {"Stable", "Unstable"}) =>
          /\ ModalCount(bufferRef) >= 25 => confidence > 75
          /\ (path = "Stable") <=> (ModalCount(bufferRef) >= 25)

\* a label filling 25 of the 30 entries of the window has locked at the
\* lowest confidence such a window gives
GeometricLockOnFrequencyWitness ==
    /\ op = "handleFrame" /\ modelType = "geometric" /\ path = "Stable"
    /\ Len(bufferRef) = PREDICTION_BUFFER_SIZE
    /\ ModalCount(bufferRef) = REQUIRED_FRAMES
    /\ confidence = 86

(***************************************************************************)
(* Properties of the thumb zone of the zero-fingers bucket                 *)
(***************************************************************************)
\* the middle knuckle lies between the index and the pinky knuckle, across
\* the image
KnucklesInOrder(landmarks) ==
    \/ /\ At(landmarks, 5).x <= At(landmarks, 9).x
       /\ At(landmarks, 9).x <= At(landmarks, 17).x
    \/ /\ At(landmarks, 17).x <= At(landmarks, 9).x
       /\ At(landmarks, 9).x <= At(landmarks, 5).x

\* the thumb tip lies strictly between the index and the middle knuckle
ThumbBetweenKnuckles(landmarks) ==
    \/ /\ At(landmarks, 5).x < At(landmarks, 4).x
       /\ At(landmarks, 4).x < At(landmarks, 9).x
    \/ /\ At(landmarks, 9).x < At(landmarks, 4).x
       /\ At(landmarks, 4).x < At(landmarks, 5).x

Appended == op' = "handleFrame" /\ sentence' # sentence

\* C36: a frame adds its label to the sentence only more than 1200 ms after
\* the last addition, only when the page it was called from showed no lock
\* and a confidence above 75, and only when the label differs from the last
\* word the sentence had, whatever frames, backspaces and clears came before.
AppendsApartAndDistinct ==
    [][Appended =>
          /\ addedFor' >= SENTENCE_ADD_COOLDOWN
          /\ ~isLocked
          /\ confidence > 75
          /\ LastWord(sentence) # <<result'>>
          /\ sentence' = Trim(sentence) \o <<" ", result'>>]_vars

\* the label that was added, removed with Backspace, and added again by a
\* later frame of the same gesture
AppendsApartAndDistinctWitness ==
    /\ op = "handleFrame"
    /\ sinceAdded = 0
    /\ addedFor > SENTENCE_ADD_COOLDOWN
    /\ Trim(sentence) = <<"A">>
    /\ path = "Stable"
    /\ heldBefore = "A"

(***************************************************************************)
(* Properties of the start-up status                                       *)
(***************************************************************************)
\* C37: with the camera start and the model load interleaved in any way,
\* "Ready" is shown only when the stream is attached and the model loaded,
\* the status never leaves "Ready", and once both have succeeded the status
\* becomes "Ready" (unless the effect is cancelled first).
ReadyOnceBothSucceed ==
    /\ [](status = "Ready" => srcObject /\ landmarkerRef)
    /\ [][status = "Ready" => status' = "Ready"]_vars
    /\ (srcObject /\ landmarkerRef /\ ~isCancelled)
          ~> (status = "Ready" \/ isCancelled)

\* the model was loaded before the stream was attached, and the status
\* became "Ready" when the video played
ReadyOnceBothSucceedWitness ==
    /\ op = "onloadeddata"
    /\ initAt = "done" /\ landmarkerRef
    /\ cameraAt = "playing"
    /\ status = "Ready"

\* C38: once the status is "Failed to load AI." no later step of the camera
\* start replaces it with a status that is not an error.
FailureStatusStays ==
    [][status = "Failed to load AI."
          => status' \in {"Failed to load AI.", "Camera Error"}]_vars

(***************************************************************************)
(* Properties of the intro banner                                          *)
(***************************************************************************)
\* C39: the mounted banner becomes visible; it is dismissed by the button or,
\* at the latest, by the timer autoDismissDuration after it became visible;
\* it is unmounted 700 ms after it was dismissed; and once unmounted it is
\* never rendered again, also when the button and the timer both fire.
BannerShownDismissedRemoved ==
    /\ <>isVisible
    /\ [](isVisible /\ ~isDismissed => shownFor <= autoDismissDuration)
    /\ [][~isDismissed /\ isDismissed' =>
             op' = "onClick" \/ shownFor = autoDismissDuration]_vars
    /\ [][isMounted /\ ~isMounted' =>
             isDismissed /\ dismissedFor = TRANSITION_DURATION]_vars
    /\ [](isDismissed /\ isMounted => dismissedFor <= TRANSITION_DURATION)
    /\ <>(~isMounted)
    /\ [][~isMounted => ~isMounted']_vars

\* the button was pressed, the banner was unmounted, and then the
\* auto-dismiss timer fired
BannerShownDismissedRemovedWitness ==
    /\ op = "autoDismiss"
    /\ ~isMounted
    /\ isDismissed
    /\ shownFor = autoDismissDuration
    /\ dismissedFor > TRANSITION_DURATION

====
